---- MODULE Spec2Model ----
(***************************************************************************)
(* Model of the matching / recommendation engine of the AI placement       *)
(* system (app/services/matching_service.py, app/services/mongo_service.py,*)
(* app/db/postgres.py and the routes that call them).                      *)
(*                                                                         *)
(* Numbers: every score is a fixed-point integer in millionths (1.0 is     *)
(* ONE = 1000000), a percentage p% is the fraction p/100 in millionths     *)
(* (100% is ONE), vector coordinates are thousandths.  Time is in days.    *)
(***************************************************************************)
EXTENDS Integers, Sequences, FiniteSets, TLC

VARIABLES
    now,        \* the clock (datetime.utcnow() / CURRENT_TIMESTAMP), in days
    jobs,       \* PostgreSQL table jobs: job_id -> row
    recs,       \* PostgreSQL table ai_recommendations: a set of rows
    parsed_resumes, \* MongoDB parsed_resumes: student_id -> documents, oldest first
    parsed_jds, \* MongoDB parsed_job_descriptions: job_id -> documents, oldest first
    cache,      \* MongoDB embedding_cache: a set of documents
    ret,        \* what the last operation returned (or raised)
    nstores,    \* number of store_recommendations calls so far
    nwrites,    \* number of documents and cache entries written from outside
    applications, \* PostgreSQL table applications: a set of rows
    sessions,   \* the database sessions of store_recommendations calls that
                \* run step by step, in the order they were opened
    resolutions \* the get_student_embedding / get_job_embedding calls that run
                \* step by step: caller -> where the call is

vars == <<now, jobs, recs, parsed_resumes, parsed_jds, cache, ret, nstores, nwrites,
          applications, sessions, resolutions>>

\* the PostgreSQL side, the MongoDB side
pg == <<jobs, recs, nstores, applications, sessions>>
mongo == <<parsed_resumes, parsed_jds, cache, nwrites, resolutions>>

----------------------------------------------------------------------------
(* Bounds of the model *)

NumCands == 2
NumJobs == 2
MaxTime == 8
MaxBatch == 2
MaxStores == 2
MaxDocs == 2
MaxWrites == 3
MaxSkills == 3
MaxYears == 3
MaxTenths == 60

Cands == 1..NumCands
Jobs == 1..NumJobs

\* the callers that resolve vectors at the same time
NumProcs == 2
Procs == 1..NumProcs

\* the clock advances in steps of 4 days
TickSteps == {4}

ONE == 1000000

\* timedelta(days=7)
TTL_DAYS == 7

JobStatuses == {"open", "closed"}

----------------------------------------------------------------------------
(* Helpers on sequences *)

Range(s) == {s[i] : i \in DOMAIN s}

SeqsUpTo(S, n) == UNION {[1..k -> S] : k \in 0..n}

Perms(S) == {p \in [1..Cardinality(S) -> S] : Range(p) = S}

----------------------------------------------------------------------------
(* RecommendationService._generate_reason *)

\* int(x * 100) of a score in millionths, int(pct) of a percentage
IntPct(x) == x \div 10000

\* the thresholds compared with > instead of >=
SkillBucketAbove(skill_pct) ==
    IF skill_pct > 80 THEN "Excellent"
    ELSE IF skill_pct > 50 THEN "Good"
    ELSE "Partial"

SkillBucket(skill_pct) ==
    IF skill_pct >= 80 THEN "Excellent"
    ELSE IF skill_pct >= 50 THEN "Good"
    ELSE "Partial"

_generate_reason(rec) ==
    [overall |-> IntPct(rec.match_score),
     skill |-> SkillBucket(IntPct(rec.skill_match_pct)),
     skill_pct |-> IntPct(rec.skill_match_pct),
     experience |-> IF rec.experience_match
                    THEN "Experience requirements met"
                    ELSE "Experience slightly outside range"]

----------------------------------------------------------------------------
(* The ai_recommendations table *)

RowsOf(table, c, j) == {r \in table : r.student_id = c /\ r.job_id = j}

HasRow(table, c, j) == RowsOf(table, c, j) # {}

TheRow(table, c, j) == CHOOSE r \in table : r.student_id = c /\ r.job_id = j

\* the row an INSERT builds: is_viewed, is_applied and created_at take the
\* column defaults
InsertedRow(c, rec, expires_at, t) ==
    [student_id |-> c,
     job_id |-> rec.job_id,
     match_score |-> rec.match_score,
     skill_match_pct |-> rec.skill_match_pct,
     experience_match |-> rec.experience_match,
     recommendation_reason |-> _generate_reason(rec),
     expires_at |-> expires_at,
     created_at |-> t,
     is_viewed |-> FALSE,
     is_applied |-> FALSE]

\* a conflict handled as delete-and-insert: the flags fall back to their defaults
ConflictReplace(old, rec, expires_at, t) ==
    InsertedRow(old.student_id, rec, expires_at, t)

\* an update that leaves expires_at as the first store set it
ConflictKeepExpiry(old, rec, expires_at, t) ==
    [old EXCEPT !.match_score = rec.match_score,
                !.skill_match_pct = rec.skill_match_pct,
                !.experience_match = rec.experience_match,
                !.recommendation_reason = _generate_reason(rec),
                !.created_at = t]

\* the row ON CONFLICT (student_id, job_id) DO UPDATE SET ... leaves
ConflictUpdate(old, rec, expires_at, t) ==
    [old EXCEPT !.match_score = rec.match_score,
                !.skill_match_pct = rec.skill_match_pct,
                !.experience_match = rec.experience_match,
                !.recommendation_reason = _generate_reason(rec),
                !.expires_at = expires_at,
                !.created_at = t]

\* an INSERT into a table without the unique constraint on (student_id, job_id)
InsertAlways(table, c, rec, expires_at, t) ==
    table \cup {InsertedRow(c, rec, expires_at, t)}

\* an upsert after DELETE FROM ai_recommendations WHERE student_id = :student_id
\* AND job_id <> :job_id: the candidate's rows for other jobs are gone
UpsertRowReplacingOthers(table, c, rec, expires_at, t) ==
    IF HasRow(table, c, rec.job_id)
    THEN {IF r.student_id = c
          THEN ConflictUpdate(r, rec, expires_at, t)
          ELSE r : r \in {x \in table : x.student_id # c \/ x.job_id = rec.job_id}}
    ELSE {x \in table : x.student_id # c} \cup {InsertedRow(c, rec, expires_at, t)}

\* INSERT INTO ai_recommendations ... ON CONFLICT ... DO UPDATE
UpsertRow(table, c, rec, expires_at, t) ==
    IF HasRow(table, c, rec.job_id)
    THEN {IF r.student_id = c /\ r.job_id = rec.job_id
          THEN ConflictUpdate(r, rec, expires_at, t)
          ELSE r : r \in table}
    ELSE table \cup {InsertedRow(c, rec, expires_at, t)}

\* the loop of store_recommendations over the first k elements of the batch
RECURSIVE StoreRows(_, _, _, _, _, _)
StoreRows(table, c, batch, k, expires_at, t) ==
    IF k = 0 THEN table
    ELSE UpsertRow(StoreRows(table, c, batch, k - 1, expires_at, t),
                   c, batch[k], expires_at, t)

\* a session that commits every statement as it is executed
autocommit_session(before, after, raised) == after

\* get_db_session: commit when the block ends, rollback when it raises
get_db_session(before, after, raised) ==
    IF raised THEN before ELSE after

\* the UPDATE without AND job_id = :job_id
SetViewedEveryJob(table, c, j) ==
    {IF r.student_id = c
     THEN [r EXCEPT !.is_viewed = TRUE] ELSE r : r \in table}

\* UPDATE ai_recommendations SET is_viewed = TRUE WHERE student_id, job_id
SetViewed(table, c, j) ==
    {IF r.student_id = c /\ r.job_id = j
     THEN [r EXCEPT !.is_viewed = TRUE] ELSE r : r \in table}

\* UPDATE ai_recommendations SET is_applied = TRUE WHERE student_id, job_id
SetApplied(table, c, j) ==
    {IF r.student_id = c /\ r.job_id = j
     THEN [r EXCEPT !.is_applied = TRUE] ELSE r : r \in table}

\* the query without AND r.is_applied = FALSE
ListQueryAllApplied(table, jobsT, t, c, include_applied) ==
    {r \in table :
        /\ r.student_id = c
        /\ r.job_id \in DOMAIN jobsT
        /\ r.expires_at > t
        /\ jobsT[r.job_id].status = "open"}

\* the query without AND r.expires_at > CURRENT_TIMESTAMP
ListQueryNoExpiry(table, jobsT, t, c, include_applied) ==
    {r \in table :
        /\ r.student_id = c
        /\ r.job_id \in DOMAIN jobsT
        /\ jobsT[r.job_id].status = "open"
        /\ (include_applied \/ r.is_applied = FALSE)}

\* the WHERE clause of get_student_recommendations (with its two JOINs)
ListQuery(table, jobsT, t, c, include_applied) ==
    {r \in table :
        /\ r.student_id = c
        /\ r.job_id \in DOMAIN jobsT
        /\ r.expires_at > t
        /\ jobsT[r.job_id].status = "open"
        /\ (include_applied \/ r.is_applied = FALSE)}

\* ORDER BY r.match_score DESC
OrderedByScoreDesc(s) ==
    \A i, k \in DOMAIN s : i < k => s[i].match_score >= s[k].match_score

\* every order the database may return the selected rows in
ListResults(table, jobsT, t, c, include_applied) ==
    {s \in Perms(ListQuery(table, jobsT, t, c, include_applied)) :
        OrderedByScoreDesc(s)}

----------------------------------------------------------------------------
(* Fixed-point arithmetic *)

Abs(x) == IF x < 0 THEN -x ELSE x

Min(a, b) == IF a <= b THEN a ELSE b

Max(a, b) == IF a >= b THEN a ELSE b

\* floor of the square root, by bisection on lo..hi
RECURSIVE SqrtBetween(_, _, _)
SqrtBetween(n, lo, hi) ==
    IF lo >= hi THEN lo
    ELSE LET mid == (lo + hi + 1) \div 2
         IN  IF mid * mid <= n THEN SqrtBetween(n, mid, hi)
             ELSE SqrtBetween(n, lo, mid - 1)

ISqrt(n) == SqrtBetween(n, 0, 46340)

\* round(x, 4) of a score and round(p, 2) of a percentage: to the nearest
\* multiple of 100 millionths, a tie to the even multiple
Round4(x) ==
    LET q == x \div 100
        r == x % 100
    IN  IF r < 50 THEN q * 100
        ELSE IF r > 50 THEN (q + 1) * 100
        ELSE IF q % 2 = 0 THEN q * 100 ELSE (q + 1) * 100

----------------------------------------------------------------------------
(* Similarity and scoring kernel *)

RECURSIVE DotUpTo(_, _, _)
DotUpTo(a, b, n) ==
    IF n = 0 THEN 0 ELSE DotUpTo(a, b, n - 1) + a[n] * b[n]

Dot(a, b) == DotUpTo(a, b, Len(a))

\* np.linalg.norm, in thousandths
Norm(a) == ISqrt(Dot(a, a))

\* cosine_similarity raises ValueError("Vectors must have same dimension")
DimensionMismatch(vec1, vec2) == Len(vec1) # Len(vec2)

\* the similarity from the magnitude of the dot product: the sign is lost
cosine_similarity_unsigned(vec1, vec2) ==
    IF Norm(vec1) = 0 \/ Norm(vec2) = 0 THEN 0
    ELSE (((Abs(Dot(vec1, vec2)) * 1000) \div Norm(vec1)) * 1000) \div Norm(vec2)

\* cosine_similarity of two vectors of the same length, in millionths
cosine_similarity(vec1, vec2) ==
    LET dot_product == Dot(vec1, vec2)
        magnitude_a == Norm(vec1)
        magnitude_b == Norm(vec2)
    IN  IF magnitude_a = 0 \/ magnitude_b = 0 THEN 0
        ELSE (((dot_product * 1000) \div magnitude_a) * 1000) \div magnitude_b

Lower(s) ==
    CASE s = "Python" -> "python"
      [] s = "SQL" -> "sql"
      [] s = "Docker" -> "docker"
      [] s = "AWS" -> "aws"
      [] OTHER -> s

LowerSet(skills) == {Lower(skills[i]) : i \in DOMAIN skills}

\* the share taken of the required list as written, duplicates counted
skill_match_over_list_length(student_skills, required_skills) ==
    IF required_skills = <<>> THEN ONE
    ELSE (Cardinality(LowerSet(student_skills) \cap LowerSet(required_skills)) * ONE)
             \div Len(required_skills)

\* compute_skill_match_percentage: the fraction of ONE (100% is ONE)
compute_skill_match_percentage(student_skills, required_skills) ==
    IF required_skills = <<>> THEN ONE
    ELSE LET student_skills_lower == LowerSet(student_skills)
             required_skills_lower == LowerSet(required_skills)
             matches == student_skills_lower \cap required_skills_lower
         IN  (Cardinality(matches) * ONE) \div Cardinality(required_skills_lower)

\* max_required = None
Unset == -1

\* `if max_required and ...`: a max_required of 0 is taken as unset
check_experience_match_truthy_max(student_experience, min_required, max_required) ==
    IF student_experience < min_required * 10 THEN FALSE
    ELSE IF max_required # Unset /\ max_required # 0
            /\ student_experience > (max_required + 2) * 10
         THEN FALSE
         ELSE TRUE

\* check_experience_match; student_experience is in tenths of a year, the
\* job's bounds are whole years
check_experience_match(student_experience, min_required, max_required) ==
    IF student_experience < min_required * 10 THEN FALSE
    ELSE IF max_required # Unset /\ student_experience > (max_required + 2) * 10
         THEN FALSE
         ELSE TRUE

\* the similarity taken as it is, without (similarity + 1) / 2
NormalizedSimilarityRaw(similarity) == similarity

\* the weighted sum of generate_recommendations, match_score = (similarity + 1) / 2
NormalizedSimilarity(similarity) == (similarity + ONE) \div 2

\* the weights of similarity and skill match exchanged
CombinedScoreSwapped(match_score, skill_match_pct, experience_match) ==
    (match_score * 4) \div 10
    + (skill_match_pct * 5) \div 10
    + ((IF experience_match THEN ONE ELSE ONE \div 2) * 1) \div 10

CombinedScore(match_score, skill_match_pct, experience_match) ==
    (match_score * 5) \div 10
    + (skill_match_pct * 4) \div 10
    + ((IF experience_match THEN ONE ELSE ONE \div 2) * 1) \div 10

----------------------------------------------------------------------------
(* Feature projector: EmbeddingService *)

\* a word of the feature string: a text or a number
Word(s) == [s |-> s, n |-> 0]

Num(n) == [s |-> "#", n |-> n]

RECURSIVE Flatten(_)
Flatten(ss) == IF ss = <<>> THEN <<>> ELSE Head(ss) \o Flatten(Tail(ss))

Words(strs) == [i \in DOMAIN strs |-> Word(strs[i])]

LowerWords(ws) == [i \in DOMAIN ws |-> [ws[i] EXCEPT !.s = Lower(ws[i].s)]]

\* _text_to_features: the feature string as its sequence of words
_text_to_features(parsed_data, entity_type) ==
    IF entity_type = "student"
    THEN <<Word("skills:")>> \o Words(parsed_data.skills)
         \o <<Word("|"), Word("experience:"), Num(parsed_data.experience_years),
              Word("years")>>
         \o Flatten([i \in DOMAIN parsed_data.education |->
                <<Word("|"), Word("education:"), Word(parsed_data.education[i].degree),
                  Word("in"), Word(parsed_data.education[i].field)>>])
         \o Flatten([i \in DOMAIN parsed_data.experience |->
                IF parsed_data.experience[i].role # ""
                THEN <<Word("|"), Word("role:"), Word(parsed_data.experience[i].role)>>
                ELSE <<>>])
    ELSE <<Word("title:"), Word(parsed_data.title), Word("|"),
           Word("required"), Word("skills:")>>
         \o Words(parsed_data.required_skills)
         \o (IF parsed_data.preferred_skills # <<>>
             THEN <<Word("|"), Word("preferred"), Word("skills:")>>
                  \o Words(parsed_data.preferred_skills)
             ELSE <<>>)
         \o (IF parsed_data.max_experience # Unset /\ parsed_data.max_experience # 0
             THEN <<Word("|"), Word("experience:"), Num(parsed_data.min_experience),
                    Num(parsed_data.max_experience), Word("years")>>
             ELSE <<Word("|"), Word("experience:"), Num(parsed_data.min_experience),
                    Word("+"), Word("years")>>)

\* _compute_text_hash: md5 of the feature string, taken as collision-free
_compute_text_hash(text) == <<"md5", text>>

\* byte j of sha256(word), as (byte - 128) / 128 in thousandths
WordByte(w, j) ==
    LET b == IF w.s = "#" THEN (w.n * 37 + j * 11 + 5) % 256
             ELSE CASE w.s = "skills:" -> (40 + j * 90) % 256
                    [] w.s = "python" -> (250 + j * 17) % 256
                    [] w.s = "sql" -> (200 + j * 50) % 256
                    [] w.s = "docker" -> (30 + j * 199) % 256
                    [] w.s = "aws" -> (90 + j * 77) % 256
                    [] w.s = "|" -> (128 + j * 3) % 256
                    [] w.s = "experience:" -> (140 + j * 23) % 256
                    [] w.s = "years" -> (120 + j * 201) % 256
                    [] w.s = "title:" -> (60 + j * 5) % 256
                    [] w.s = "required" -> (170 + j * 101) % 256
                    [] w.s = "preferred" -> (100 + j * 41) % 256
                    [] w.s = "+" -> (220 + j * 63) % 256
                    [] OTHER -> (77 + j * 13) % 256
    IN  ((b - 128) * 1000) \div 128

\* the coordinates of the code are 256 and a word fills 32 of them
EmbDim == 2
BlockLen == 1

\* what the words up to the n-th add to coordinate idx
RECURSIVE ScatterAdd(_, _, _)
ScatterAdd(words, n, idx) ==
    IF n = 0 THEN 0
    ELSE LET i == n - 1
             js == {j \in 0..(Min(BlockLen, EmbDim) - 1) :
                        (i * BlockLen + j) % EmbDim = idx}
             RECURSIVE SumBytes(_)
             SumBytes(S) == IF S = {} THEN 0
                            ELSE LET j == CHOOSE x \in S : TRUE
                                 IN  WordByte(words[n], j) + SumBytes(S \ {j})
         IN  ScatterAdd(words, n - 1, idx) + SumBytes(js)

\* _generate_simple_embedding: lower-case, hash every word into the vector,
\* normalise to unit length (1000 thousandths)
_generate_simple_embedding(text) ==
    LET words == LowerWords(text)
        embedding == [k \in 1..EmbDim |-> ScatterAdd(words, Len(words), k - 1)]
        magnitude == Norm(embedding)
    IN  IF magnitude > 0
        THEN [k \in 1..EmbDim |-> (embedding[k] * 1000) \div magnitude]
        ELSE embedding

\* parsed_data of resumes (experience_years in tenths of a year)
Profiles ==
    {[skills |-> <<"Python", "SQL", "Docker">>, experience_years |-> 10,
      education |-> <<>>, experience |-> <<>>],
     [skills |-> <<"python", "AWS">>, experience_years |-> 30,
      education |-> <<>>, experience |-> <<>>]}

\* parsed_data of job descriptions
JobDescs ==
    {[title |-> "Engineer", required_skills |-> <<"Python", "SQL", "Docker">>,
      preferred_skills |-> <<>>, min_experience |-> 0, max_experience |-> 3],
     [title |-> "Engineer", required_skills |-> <<"Python">>,
      preferred_skills |-> <<"SQL">>, min_experience |-> 1, max_experience |-> 3]}

\* every feature string of the model, and its embedding, computed once
FeatureTexts ==
    {_text_to_features(p, "student") : p \in Profiles}
    \cup {_text_to_features(d, "job") : d \in JobDescs}

EmbeddingOf == [text \in FeatureTexts |-> _generate_simple_embedding(text)]

\* vectors written to the cache directly: the zero vector, and one of another
\* embedding scheme (one coordinate more)
PutVectors ==
    {[k \in 1..EmbDim |-> 0], [k \in 1..(EmbDim + 1) |-> 500]}

\* every vector of the model, and the similarity of every two of the same
\* length, computed once
Vectors == {EmbeddingOf[text] : text \in FeatureTexts} \cup PutVectors

SimilarityOf ==
    [p \in {q \in Vectors \X Vectors : ~DimensionMismatch(q[1], q[2])} |->
        cosine_similarity(p[1], p[2])]

----------------------------------------------------------------------------
(* Document store: parsed_resumes, parsed_job_descriptions, embedding_cache *)

\* None and the empty list: both are falsy where the code tests a vector
NoVector == <<>>

\* ParsedResumeService.get_by_student: find_one sorted by parsed_at descending;
\* the documents of a student are kept in the order of their parsed_at.
\* The result is <<>> for None and <<doc>> for a document.
get_by_student(resumes, student_id) ==
    IF resumes[student_id] = <<>> THEN <<>>
    ELSE <<resumes[student_id][Len(resumes[student_id])]>>

\* ParsedJobDescriptionService.get_by_job: find_one without a sort, the first
\* document of the job in the collection's natural (insertion) order
get_by_job(jds, job_id) ==
    IF jds[job_id] = <<>> THEN <<>> ELSE <<jds[job_id][1]>>

CacheDocs(coll, entity_type, entity_id) ==
    {d \in coll : d.entity_type = entity_type /\ d.entity_id = entity_id}

\* EmbeddingCacheService.get_embedding
get_embedding(coll, entity_type, entity_id) ==
    IF CacheDocs(coll, entity_type, entity_id) = {} THEN NoVector
    ELSE (CHOOSE d \in CacheDocs(coll, entity_type, entity_id) : TRUE).embedding

\* an update_one without upsert=True and without a match: nothing is written
store_embedding_dropped(coll, entity_type, entity_id, embedding, text_hash, t) ==
    coll

\* an upsert whose filter names entity_id only
store_embedding_by_id(coll, entity_type, entity_id, embedding, text_hash, t) ==
    LET doc == [entity_type |-> entity_type, entity_id |-> entity_id,
                embedding |-> embedding, text_hash |-> text_hash, created_at |-> t]
        hit == {d \in coll : d.entity_id = entity_id}
    IN  IF hit = {} THEN coll \cup {doc}
        ELSE LET one == CHOOSE d \in hit : TRUE
             IN  (coll \ {one}) \cup {doc}

\* an upsert whose $set names the vector only: text_hash stays what an earlier
\* write left
store_embedding_vector_only(coll, entity_type, entity_id, embedding, text_hash, t) ==
    LET doc == [entity_type |-> entity_type, entity_id |-> entity_id,
                embedding |-> embedding, text_hash |-> text_hash, created_at |-> t]
        hit == CacheDocs(coll, entity_type, entity_id)
    IN  IF hit = {} THEN coll \cup {doc}
        ELSE LET one == CHOOSE d \in hit : TRUE
             IN  (coll \ {one}) \cup {[one EXCEPT !.embedding = embedding]}

\* EmbeddingCacheService.store_embedding: update_one(..., {"$set": doc}, upsert=True)
store_embedding(coll, entity_type, entity_id, embedding, text_hash, t) ==
    LET doc == [entity_type |-> entity_type, entity_id |-> entity_id,
                embedding |-> embedding, text_hash |-> text_hash, created_at |-> t]
        hit == CacheDocs(coll, entity_type, entity_id)
    IN  IF hit = {} THEN coll \cup {doc}
        ELSE LET one == CHOOSE d \in hit : TRUE
             IN  (coll \ {one}) \cup {doc}

\* the tail of get_student_embedding and get_job_embedding: hash the feature
\* string, project it, put the vector in the cache and return it
embed_and_cache(coll, entity_type, entity_id, feature_text, t) ==
    [vec |-> EmbeddingOf[feature_text],
     cache |-> store_embedding(coll, entity_type, entity_id,
                               EmbeddingOf[feature_text],
                               _compute_text_hash(feature_text), t)]

\* a resolution that projects and stores the vector again although one is cached
embedding_from_regenerating(coll, entity_type, entity_id, cached, parsed_doc, t) ==
    IF parsed_doc = <<>> THEN [vec |-> cached, cache |-> coll]
    ELSE embed_and_cache(coll, entity_type, entity_id,
                         _text_to_features(parsed_doc[1].parsed_data, entity_type), t)

\* a cache hit that is read from a field the cache entry does not have
embedding_from_lost_hit(coll, entity_type, entity_id, cached, parsed_doc, t) ==
    IF cached # NoVector THEN [vec |-> NoVector, cache |-> coll]
    ELSE IF parsed_doc = <<>> THEN [vec |-> NoVector, cache |-> coll]
    ELSE embed_and_cache(coll, entity_type, entity_id,
                         _text_to_features(parsed_doc[1].parsed_data, entity_type), t)

\* the body of get_student_embedding and get_job_embedding once the cache and
\* the parsed document have been read; cached is NoVector under force_regenerate
embedding_from(coll, entity_type, entity_id, cached, parsed_doc, t) ==
    IF cached # NoVector THEN [vec |-> cached, cache |-> coll]
    ELSE IF parsed_doc = <<>> THEN [vec |-> NoVector, cache |-> coll]
    ELSE embed_and_cache(coll, entity_type, entity_id,
                         _text_to_features(parsed_doc[1].parsed_data, entity_type), t)

\* EmbeddingService.get_student_embedding: the vector it returns and the
\* cache it leaves
get_student_embedding(coll, resumes, student_id, force_regenerate, t) ==
    embedding_from(coll, "student", student_id,
                   IF force_regenerate THEN NoVector
                   ELSE get_embedding(coll, "student", student_id),
                   get_by_student(resumes, student_id), t)

\* EmbeddingService.get_job_embedding
get_job_embedding(coll, jds, job_id, force_regenerate, t) ==
    embedding_from(coll, "job", job_id,
                   IF force_regenerate THEN NoVector
                   ELSE get_embedding(coll, "job", job_id),
                   get_by_job(jds, job_id), t)

----------------------------------------------------------------------------
(* RecommendationService.generate_recommendations *)

\* a filter that compares the rounded values: round(combined_score, 4) >=
\* round(min_score, 4)
append_if_rounded_eligible(st, job_id, match_score, skill_match_pct, experience_match, min_score) ==
    IF Round4(CombinedScore(match_score, skill_match_pct, experience_match))
           >= Round4(min_score)
    THEN [st EXCEPT !.recommendations =
             Append(@, [job_id |-> job_id,
                        match_score |-> Round4(CombinedScore(match_score,
                                                             skill_match_pct,
                                                             experience_match)),
                        skill_match_pct |-> Round4(skill_match_pct),
                        experience_match |-> experience_match,
                        embedding_similarity |-> Round4(match_score)])]
    ELSE st

\* the end of the loop body: combined_score, the test against min_score and the
\* dict that is appended; st is the cache, the recommendations list and
\* whether cosine_similarity has raised
append_if_eligible(st, job_id, match_score, skill_match_pct, experience_match, min_score) ==
    IF CombinedScore(match_score, skill_match_pct, experience_match) >= min_score
    THEN [st EXCEPT !.recommendations =
             Append(@, [job_id |-> job_id,
                        match_score |-> Round4(CombinedScore(match_score,
                                                             skill_match_pct,
                                                             experience_match)),
                        skill_match_pct |-> Round4(skill_match_pct),
                        experience_match |-> experience_match,
                        embedding_similarity |-> Round4(match_score)])]
    ELSE st

\* the loop body with a similarity that pairs the coordinates like zip and
\* ignores the ones the shorter vector does not have
score_with_truncating(st, got, job_doc, jobsT, student_embedding, student_data, job_id, min_score) ==
    IF got.vec = NoVector THEN [st EXCEPT !.cache = got.cache]
    ELSE append_if_eligible(
             [st EXCEPT !.cache = got.cache],
             job_id,
             NormalizedSimilarity(cosine_similarity(
                 SubSeq(student_embedding, 1, Min(Len(student_embedding), Len(got.vec))),
                 SubSeq(got.vec, 1, Min(Len(student_embedding), Len(got.vec))))),
             IF job_doc # <<>>
             THEN compute_skill_match_percentage(
                      student_data.skills, job_doc[1].parsed_data.required_skills)
             ELSE ONE \div 2,
             IF job_doc # <<>>
             THEN check_experience_match(student_data.experience_years,
                                         jobsT[job_id].min_experience,
                                         jobsT[job_id].max_experience)
             ELSE TRUE,
             min_score)

\* the loop body after get_job_embedding has returned got and get_by_job has
\* returned job_doc
score_with(st, got, job_doc, jobsT, student_embedding, student_data, job_id, min_score) ==
    IF got.vec = NoVector THEN [st EXCEPT !.cache = got.cache]
    ELSE IF DimensionMismatch(student_embedding, got.vec)
    THEN [st EXCEPT !.cache = got.cache, !.raised = TRUE]
    ELSE append_if_eligible(
             [st EXCEPT !.cache = got.cache],
             job_id,
             NormalizedSimilarity(SimilarityOf[<<student_embedding, got.vec>>]),
             IF job_doc # <<>>
             THEN compute_skill_match_percentage(
                      student_data.skills, job_doc[1].parsed_data.required_skills)
             ELSE ONE \div 2,
             IF job_doc # <<>>
             THEN check_experience_match(student_data.experience_years,
                                         jobsT[job_id].min_experience,
                                         jobsT[job_id].max_experience)
             ELSE TRUE,
             min_score)

\* step 4 for one job
ScoreJob(st, jds, jobsT, student_embedding, student_data, job_id, min_score, t) ==
    score_with(st, get_job_embedding(st.cache, jds, job_id, FALSE, t),
               get_by_job(jds, job_id), jobsT, student_embedding, student_data,
               job_id, min_score)

\* the loop does not go on once cosine_similarity has raised
ScoreNext(before, jds, jobsT, student_embedding, student_data, job_id, min_score, t) ==
    IF before.raised THEN before
    ELSE ScoreJob(before, jds, jobsT, student_embedding, student_data, job_id,
                  min_score, t)

\* the loop over the first k open jobs
RECURSIVE ScoreJobs(_, _, _, _, _, _, _, _, _)
ScoreJobs(st, jds, jobsT, student_embedding, student_data, open_jobs, k, min_score, t) ==
    IF k = 0 THEN st
    ELSE ScoreNext(ScoreJobs(st, jds, jobsT, student_embedding, student_data,
                             open_jobs, k - 1, min_score, t),
                   jds, jobsT, student_embedding, student_data, open_jobs[k],
                   min_score, t)

\* an ascending sort that is reversed afterwards: x goes ahead of its equals
InsertDescAheadOfEquals(sorted, x) ==
    LET ahead == {i \in DOMAIN sorted : sorted[i].match_score > x.match_score}
        n == IF ahead = {} THEN 0 ELSE CHOOSE i \in ahead : \A k \in ahead : k <= i
    IN  SubSeq(sorted, 1, n) \o <<x>> \o SubSeq(sorted, n + 1, Len(sorted))

\* list.sort(key=match_score, reverse=True): stable, so x goes behind every
\* element whose key is not smaller
InsertDesc(sorted, x) ==
    LET ahead == {i \in DOMAIN sorted : sorted[i].match_score >= x.match_score}
        n == IF ahead = {} THEN 0 ELSE CHOOSE i \in ahead : \A k \in ahead : k <= i
    IN  SubSeq(sorted, 1, n) \o <<x>> \o SubSeq(sorted, n + 1, Len(sorted))

RECURSIVE SortByScoreDesc(_)
SortByScoreDesc(s) ==
    IF s = <<>> THEN <<>>
    ELSE InsertDesc(SortByScoreDesc(SubSeq(s, 1, Len(s) - 1)), s[Len(s)])

\* s[:n + 1]
SliceOneMore(s, n) == SubSeq(s, 1, Min(n + 1, Len(s)))

\* s[:n]
SliceTo(s, n) ==
    IF n >= 0 THEN SubSeq(s, 1, Min(n, Len(s)))
    ELSE SubSeq(s, 1, Max(Len(s) + n, 0))

\* step 5: sort and take the top n, unless the loop has raised
sort_and_slice(st, top_n) ==
    IF st.raised THEN [result |-> <<>>, raised |-> TRUE, cache |-> st.cache]
    ELSE [result |-> SliceTo(SortByScoreDesc(st.recommendations), top_n),
          raised |-> FALSE, cache |-> st.cache]

\* steps 1 to 5 without the test of student_doc: a candidate whose vector is
\* cached and whose profile is absent gets to student_doc.get, which raises
generate_from_unchecked(got, student_doc, jds, jobsT, open_jobs, top_n, min_score, t) ==
    IF got.vec = NoVector
    THEN [result |-> <<>>, raised |-> FALSE, cache |-> got.cache]
    ELSE IF student_doc = <<>>
    THEN [result |-> <<>>, raised |-> TRUE, cache |-> got.cache]
    ELSE sort_and_slice(
             ScoreJobs([cache |-> got.cache, recommendations |-> <<>>,
                        raised |-> FALSE],
                       jds, jobsT, got.vec, student_doc[1].parsed_data,
                       open_jobs, Len(open_jobs), min_score, t),
             top_n)

\* generate_recommendations after get_student_embedding has returned got and
\* get_by_student has returned student_doc; open_jobs is the result of the SELECT
generate_from(got, student_doc, jds, jobsT, open_jobs, top_n, min_score, t) ==
    IF got.vec = NoVector
    THEN [result |-> <<>>, raised |-> FALSE, cache |-> got.cache]
    ELSE IF student_doc = <<>>
    THEN [result |-> <<>>, raised |-> FALSE, cache |-> got.cache]
    ELSE sort_and_slice(
             ScoreJobs([cache |-> got.cache, recommendations |-> <<>>,
                        raised |-> FALSE],
                       jds, jobsT, got.vec, student_doc[1].parsed_data,
                       open_jobs, Len(open_jobs), min_score, t),
             top_n)

\* generate_recommendations: the list it returns, whether it raised, and the
\* embedding cache it leaves
generate_recommendations(coll, resumes, jds, jobsT, open_jobs, student_id, top_n, min_score, t) ==
    generate_from(get_student_embedding(coll, resumes, student_id, FALSE, t),
                  get_by_student(resumes, student_id),
                  jds, jobsT, open_jobs, top_n, min_score, t)

\* SELECT ... FROM jobs WHERE status = 'open': the rows in any order
OpenJobs(jobsT) == {j \in DOMAIN jobsT : jobsT[j].status = "open"}

----------------------------------------------------------------------------
(* Inputs *)

\* scored-job dicts handed to store_recommendations
StoreScores ==
    {[match_score |-> 912300, skill_match_pct |-> ONE, experience_match |-> TRUE],
     [match_score |-> 455000, skill_match_pct |-> 250000, experience_match |-> FALSE]}

StoreRecs ==
    {[job_id |-> j, match_score |-> s.match_score,
      skill_match_pct |-> s.skill_match_pct,
      experience_match |-> s.experience_match] : j \in Jobs, s \in StoreScores}

Batches == SeqsUpTo(StoreRecs, MaxBatch)

\* the rows of table jobs: odd jobs ask for 0 to 3 years, even jobs for 2 or more
JobRow(j) ==
    IF j % 2 = 1
    THEN [status |-> "open", min_experience |-> 0, max_experience |-> 3]
    ELSE [status |-> "open", min_experience |-> 2, max_experience |-> Unset]

EntityTypes == {"student", "job"}

TopNs == {0, 1, 10}

\* top_n: int = Query(10, ge=1, le=50)
RouteTopNs == {1, 10}

MinScores == {300000, 900000}

\* min_score: float = Query(0.3, ge=0, le=1) with more than 4 decimals: 0.48333
\* and 0.48334, on either side of the combined score 0.25 + 0.4/3 + 0.1
NearMinScores == {483330, 483340}

\* skill names as they are written in profiles and job descriptions
SkillNames == {"Python", "python", "SQL"}

SkillLists == SeqsUpTo(SkillNames, MaxSkills)

\* cosine similarities from -1 to 1 in steps of 0.05
Similarities == {k * (ONE \div 20) - ONE : k \in 0..40}

\* skill match fractions: k of n required skills, n up to 4
SkillPcts == {(k * ONE) \div n : k \in 0..4, n \in 1..4} \cap 0..ONE

KernelMinScores == {0, 300000}

\* skill_match_pct of a recommendation dict: round(pct, 2), here the values
\* next to 50 and 80 and the shares of up to 4 required skills
ReasonSkillPcts ==
    {Round4(p) : p \in SkillPcts}
    \cup {499900, 500000, 500100, 799900, 800000, 800100, 809900}

\* match_score of a recommendation dict
ReasonScores == {50000, 300000, 455000, 483300, 750000, 912300, ONE}

Negated(v) == [i \in DOMAIN v |-> 0 - v[i]]

\* vectors handed to cosine_similarity: the empty list, zero vectors, vectors
\* of 1, 2 and 3 coordinates, the vectors of the model, and the negation of each
PlainVectors ==
    {<<>>, <<0>>, <<0, 0, 0>>, <<1000>>, <<600, 800>>, <<300, 400>>, <<1000, 0>>,
     <<0, 1000>>, <<200, 400, 400>>, <<-200, 400, -400>>} \cup Vectors

CosVectors == PlainVectors \cup {Negated(v) : v \in PlainVectors}

NoArgs == [none |-> TRUE]

Ret(op, c, args, val) == [op |-> op, student_id |-> c, args |-> args, val |-> val]

\* the sessions that have neither committed nor rolled back
OpenSessions == {i \in DOMAIN sessions : sessions[i].state = "open"}

\* the row (c, j) is written and not yet committed by an open session other
\* than session me (PostgreSQL holds the row lock until the transaction ends)
Locked(c, j, me) ==
    \E i \in OpenSessions \ {me} :
        \E w \in sessions[i].writes : w.student_id = c /\ w.job_id = j

\* what session s sees and what its commit leaves (READ COMMITTED): the
\* committed rows, with the rows it has written itself in place of theirs
Snapshot(table, s) ==
    {r \in table : ~\E w \in s.writes :
                       w.student_id = r.student_id /\ w.job_id = r.job_id}
        \cup s.writes

\* the rows session s has written once it has upserted rec
WritesAfter(s, rec, t, seen) ==
    {r \in UpsertRow(seen, s.student_id, rec, s.expires_at, t) :
        /\ r.student_id = s.student_id
        /\ \/ r.job_id = rec.job_id
           \/ \E w \in s.writes : w.job_id = r.job_id}

----------------------------------------------------------------------------
(* Operations *)

\* a caller that is in no get_student_embedding / get_job_embedding call
Idle == [pc |-> "idle", entity_type |-> "student", entity_id |-> 0, text |-> <<>>]

Init ==
    /\ now = 0
    /\ jobs = [j \in Jobs |-> JobRow(j)]
    /\ recs = {}
    /\ parsed_resumes = [c \in Cands |-> <<>>]
    /\ parsed_jds = [j \in Jobs |-> <<>>]
    /\ cache = {}
    /\ nwrites = 0
    /\ ret = Ret("init", 0, NoArgs, 0)
    /\ nstores = 0
    /\ applications = {}
    /\ sessions = <<>>
    /\ resolutions = [p \in Procs |-> Idle]

\* time passes
Tick ==
    /\ \E d \in TickSteps :
        /\ now + d <= MaxTime
        /\ now' = now + d
    /\ ret' = Ret("tick", 0, NoArgs, 0)
    /\ UNCHANGED <<jobs, recs, nstores, applications, sessions, mongo>>

\* PUT /jobs/{job_id} with a status (update_job)
UpdateJobStatus ==
    /\ \E j \in Jobs, s \in JobStatuses :
        /\ jobs[j].status # s
        /\ jobs' = [jobs EXCEPT ![j].status = s]
    /\ ret' = Ret("update_job", 0, NoArgs, 0)
    /\ UNCHANGED <<now, recs, nstores, applications, sessions, mongo>>

\* RecommendationService.store_recommendations; failed_at = k > 0 means that
\* the k-th db.execute raises, failed_at = 0 that none does
Store ==
    \E c \in Cands, batch \in Batches, failed_at \in 0..MaxBatch :
        /\ failed_at <= Len(batch)
        /\ nstores < MaxStores
        /\ nstores' = nstores + 1
        /\ LET written == IF failed_at = 0 THEN Len(batch) ELSE failed_at - 1
               expires_at == now + TTL_DAYS
               after == StoreRows(recs, c, batch, written, expires_at, now)
           IN  /\ recs' = IF batch = <<>> THEN recs
                          ELSE get_db_session(recs, after, failed_at # 0)
               /\ ret' = Ret("store", c,
                             [batch |-> batch, failed_at |-> failed_at],
                             IF failed_at # 0 THEN -1 ELSE Len(batch))
        /\ UNCHANGED <<now, jobs, applications, sessions, mongo>>

\* RecommendationService.get_student_recommendations
List ==
    \E c \in Cands, include_applied \in BOOLEAN :
        /\ \E s \in ListResults(recs, jobs, now, c, include_applied) :
            ret' = Ret("list", c, [include_applied |-> include_applied], s)
        /\ UNCHANGED <<now, jobs, recs, nstores, applications, sessions, mongo>>

\* RecommendationService.mark_recommendation_viewed
MarkViewed ==
    \E c \in Cands, j \in Jobs :
        /\ ~Locked(c, j, 0)
        /\ recs' = SetViewed(recs, c, j)
        /\ ret' = Ret("mark_viewed", c, [job_id |-> j], HasRow(recs, c, j))
        /\ UNCHANGED <<now, jobs, nstores, applications, sessions, mongo>>

\* RecommendationService.mark_recommendation_applied
MarkApplied ==
    \E c \in Cands, j \in Jobs :
        /\ ~Locked(c, j, 0)
        /\ recs' = SetApplied(recs, c, j)
        /\ ret' = Ret("mark_applied", c, [job_id |-> j], HasRow(recs, c, j))
        /\ UNCHANGED <<now, jobs, nstores, applications, sessions, mongo>>

\* ParsedResumeService.insert (ResumeParsingService.parse_and_store, step 4)
InsertResume ==
    /\ \E c \in Cands, p \in Profiles :
        /\ Len(parsed_resumes[c]) < MaxDocs
        /\ nwrites < MaxWrites
        /\ nwrites' = nwrites + 1
        /\ parsed_resumes' =
               [parsed_resumes EXCEPT ![c] = Append(@, [parsed_data |-> p])]
    /\ ret' = Ret("insert_resume", 0, NoArgs, 0)
    /\ UNCHANGED <<now, pg, parsed_jds, cache, resolutions>>

\* ParsedJobDescriptionService.insert (JobDescriptionParsingService.parse_and_store)
InsertJD ==
    /\ \E j \in Jobs, d \in JobDescs :
        /\ Len(parsed_jds[j]) < MaxDocs
        /\ nwrites < MaxWrites
        /\ nwrites' = nwrites + 1
        /\ parsed_jds' = [parsed_jds EXCEPT ![j] = Append(@, [parsed_data |-> d])]
    /\ ret' = Ret("insert_jd", 0, NoArgs, 0)
    /\ UNCHANGED <<now, pg, parsed_resumes, cache, resolutions>>

\* the text_hash "abc123" of scripts/test_mongo.py: the hash of no feature string
ForeignHash == <<"md5", <<Word("abc123")>>>>

\* EmbeddingCacheService.store_embedding called directly (scripts/test_mongo.py)
PutEmbedding ==
    /\ nwrites < MaxWrites
    /\ nwrites' = nwrites + 1
    /\ \E entity_type \in EntityTypes, v \in PutVectors :
        \E entity_id \in (IF entity_type = "student" THEN Cands ELSE Jobs) :
            /\ cache' = store_embedding(cache, entity_type, entity_id, v,
                                        ForeignHash, now)
            /\ ret' = Ret("put", 0,
                          [entity_type |-> entity_type, entity_id |-> entity_id], v)
    /\ UNCHANGED <<now, pg, parsed_resumes, parsed_jds, resolutions>>

\* EmbeddingService.get_student_embedding
GetStudentEmbedding ==
    /\ \E c \in Cands, force \in BOOLEAN :
        LET got == get_student_embedding(cache, parsed_resumes, c, force, now)
        IN  /\ cache' = got.cache
            /\ ret' = Ret("get_student_embedding", c, [force |-> force], got.vec)
    /\ UNCHANGED <<now, pg, parsed_resumes, parsed_jds, nwrites, resolutions>>

\* EmbeddingService.get_job_embedding
GetJobEmbedding ==
    /\ \E j \in Jobs, force \in BOOLEAN :
        LET got == get_job_embedding(cache, parsed_jds, j, force, now)
        IN  /\ cache' = got.cache
            /\ ret' = Ret("get_job_embedding", 0,
                          [job_id |-> j, force |-> force], got.vec)
    /\ UNCHANGED <<now, pg, parsed_resumes, parsed_jds, nwrites, resolutions>>

\* RecommendationService.generate_recommendations
Generate ==
    /\ \E c \in Cands, top_n \in TopNs, min_score \in MinScores,
          open_jobs \in Perms(OpenJobs(jobs)) :
        LET g == generate_recommendations(cache, parsed_resumes, parsed_jds, jobs,
                                          open_jobs, c, top_n, min_score, now)
        IN  /\ cache' = g.cache
            /\ ret' = Ret("generate", c,
                          [top_n |-> top_n, min_score |-> min_score,
                           open_jobs |-> open_jobs],
                          [result |-> g.result, raised |-> g.raised])
    /\ UNCHANGED <<now, pg, parsed_resumes, parsed_jds, nwrites, resolutions>>

\* POST /recommendations/generate: generate, then store what it returned
GenerateRoute ==
    /\ nstores < MaxStores
    /\ \E c \in Cands, top_n \in RouteTopNs, min_score \in MinScores,
          open_jobs \in Perms(OpenJobs(jobs)) :
        LET g == generate_recommendations(cache, parsed_resumes, parsed_jds, jobs,
                                          open_jobs, c, top_n, min_score, now)
            args == [top_n |-> top_n, min_score |-> min_score,
                     open_jobs |-> open_jobs]
        IN  IF parsed_resumes[c] = <<>>
            THEN /\ ret' = Ret("generate_route", c, args,
                               [status |-> 400, result |-> <<>>, raised |-> FALSE])
                 /\ UNCHANGED <<cache, recs, nstores>>
            ELSE /\ cache' = g.cache
                 /\ ret' = Ret("generate_route", c, args,
                               [status |-> IF g.raised THEN 500 ELSE 200,
                                result |-> g.result, raised |-> g.raised])
                 /\ IF g.result = <<>>
                    THEN UNCHANGED <<recs, nstores>>
                    ELSE /\ recs' = get_db_session(recs,
                                        StoreRows(recs, c, g.result, Len(g.result),
                                                  now + TTL_DAYS, now),
                                        FALSE)
                         /\ nstores' = nstores + 1
    /\ UNCHANGED <<now, jobs, applications, sessions, parsed_resumes, parsed_jds, nwrites, resolutions>>

\* POST /jobs/{job_id}/apply (apply_to_job): 400 when the job is not open or
\* the student has applied already, else the application row is inserted and
\* the recommendation row of the pair, if there is one, is flagged
ApplyToJob ==
    \E c \in Cands, j \in Jobs :
        LET applied == \E a \in applications : a.student_id = c /\ a.job_id = j
            refused == jobs[j].status # "open" \/ applied
        IN  /\ ~Locked(c, j, 0)
            /\ applications' = IF refused THEN applications
                               ELSE applications \cup {[student_id |-> c, job_id |-> j]}
            /\ recs' = IF refused THEN recs ELSE SetApplied(recs, c, j)
            /\ ret' = Ret("apply", c, [job_id |-> j], IF refused THEN 400 ELSE 200)
            /\ UNCHANGED <<now, jobs, nstores, sessions, mongo>>

\* store_recommendations up to its with statement: expires_at is computed and
\* a session is opened
BeginStore ==
    \E c \in Cands, batch \in Batches :
        /\ batch # <<>>
        /\ nstores < MaxStores
        /\ nstores' = nstores + 1
        /\ sessions' = Append(sessions,
               [student_id |-> c, recommendations |-> batch,
                expires_at |-> now + TTL_DAYS, started |-> Unset,
                stored_count |-> 0, writes |-> {}, state |-> "open",
                overlaps |-> OpenSessions])
        /\ ret' = Ret("begin_store", c, NoArgs, Len(sessions) + 1)
        /\ UNCHANGED <<now, jobs, recs, applications, mongo>>

\* one db.execute of the loop of store_recommendations in an open session: it
\* waits while another open session holds the row, and CURRENT_TIMESTAMP is
\* the time the transaction started
StoreExecute ==
    \E i \in OpenSessions :
        LET s == sessions[i]
            rec == s.recommendations[s.stored_count + 1]
            t == IF s.stored_count = 0 THEN now ELSE s.started
        IN  /\ s.stored_count < Len(s.recommendations)
            /\ ~Locked(s.student_id, rec.job_id, i)
            /\ sessions' = [sessions EXCEPT ![i] =
                   [s EXCEPT !.stored_count = @ + 1, !.started = t,
                             !.writes = WritesAfter(s, rec, t, Snapshot(recs, s))]]
            /\ ret' = Ret("execute", s.student_id, NoArgs, i)
            /\ UNCHANGED <<now, jobs, recs, nstores, applications, mongo>>

\* the with statement of store_recommendations ends normally: session.commit()
CommitStore ==
    \E i \in OpenSessions :
        LET s == sessions[i]
        IN  /\ s.stored_count = Len(s.recommendations)
            /\ recs' = get_db_session(recs, Snapshot(recs, s), FALSE)
            /\ sessions' = [sessions EXCEPT ![i] =
                   [s EXCEPT !.state = "committed", !.writes = {}]]
            /\ ret' = Ret("store_session", s.student_id, NoArgs, s.stored_count)
            /\ UNCHANGED <<now, jobs, nstores, applications, mongo>>

\* a db.execute or the commit of an open session raises (a deadlock between
\* two sessions, a lost connection): session.rollback()
RollbackStore ==
    \E i \in OpenSessions :
        LET s == sessions[i]
        IN  /\ recs' = get_db_session(recs, Snapshot(recs, s), TRUE)
            /\ sessions' = [sessions EXCEPT ![i] =
                   [s EXCEPT !.state = "rolled_back", !.writes = {}]]
            /\ ret' = Ret("store_session", s.student_id, NoArgs, -1)
            /\ UNCHANGED <<now, jobs, nstores, applications, mongo>>

\* compute_skill_match_percentage called on two skill lists
SkillMatch ==
    /\ \E student_skills \in SkillLists, required_skills \in SkillLists :
        ret' = Ret("skill_match", 0,
                   [student_skills |-> student_skills,
                    required_skills |-> required_skills],
                   compute_skill_match_percentage(student_skills, required_skills))
    /\ UNCHANGED <<now, pg, mongo>>

\* check_experience_match called on a number of years (in tenths) and the
\* bounds of a job (whole years, max_required possibly None)
ExperienceMatch ==
    /\ \E student_experience \in 0..MaxTenths, min_required \in 0..MaxYears,
          max_required \in {Unset} \cup 0..MaxYears :
        ret' = Ret("experience_match", 0,
                   [student_experience |-> student_experience,
                    min_required |-> min_required,
                    max_required |-> max_required],
                   check_experience_match(student_experience, min_required,
                                          max_required))
    /\ UNCHANGED <<now, pg, mongo>>

\* the loop body of generate_recommendations from match_score = ... to the
\* append, for one job with a given similarity, skill match and experience
\* match: the list it leaves
ScoreOne ==
    /\ \E similarity \in Similarities, skill_match_pct \in SkillPcts,
          experience_match \in BOOLEAN, min_score \in KernelMinScores :
        ret' = Ret("score", 0,
                   [similarity |-> similarity, skill_match_pct |-> skill_match_pct,
                    experience_match |-> experience_match, min_score |-> min_score],
                   append_if_eligible(
                       [cache |-> {}, recommendations |-> <<>>, raised |-> FALSE],
                       1, NormalizedSimilarity(similarity), skill_match_pct,
                       experience_match, min_score).recommendations)
    /\ UNCHANGED <<now, pg, mongo>>

\* cosine_similarity called on two vectors: the float it returns, or that it
\* raised ValueError
CosineSimilarity ==
    /\ \E vec1 \in CosVectors, vec2 \in CosVectors :
        ret' = Ret("cosine_similarity", 0, [vec1 |-> vec1, vec2 |-> vec2],
                   IF DimensionMismatch(vec1, vec2)
                   THEN [raised |-> TRUE, value |-> 0]
                   ELSE [raised |-> FALSE, value |-> cosine_similarity(vec1, vec2)])
    /\ UNCHANGED <<now, pg, mongo>>

\* get_student_embedding / get_job_embedding up to the cache read: a hit is
\* returned, after a miss (or under force_regenerate) the call goes on
ResolveCache ==
    /\ \E p \in Procs, entity_type \in EntityTypes, force \in BOOLEAN :
        \E entity_id \in (IF entity_type = "student" THEN Cands ELSE Jobs) :
            /\ resolutions[p].pc = "idle"
            /\ IF ~force /\ get_embedding(cache, entity_type, entity_id) # NoVector
               THEN /\ ret' = Ret("get_or_compute", 0,
                                  [entity_type |-> entity_type, entity_id |-> entity_id],
                                  get_embedding(cache, entity_type, entity_id))
                    /\ UNCHANGED resolutions
               ELSE /\ ret' = Ret("resolving", 0, NoArgs, 0)
                    /\ resolutions' =
                           [resolutions EXCEPT ![p] =
                               [pc |-> "missed", entity_type |-> entity_type,
                                entity_id |-> entity_id, text |-> <<>>]]
    /\ UNCHANGED <<now, pg, parsed_resumes, parsed_jds, cache, nwrites>>

\* the read of the parsed document and the feature string built from it; None
\* is returned when there is no document
ResolveDocument ==
    /\ \E p \in Procs :
        LET r == resolutions[p]
            parsed_doc == IF r.entity_type = "student"
                          THEN get_by_student(parsed_resumes, r.entity_id)
                          ELSE get_by_job(parsed_jds, r.entity_id)
        IN  /\ r.pc = "missed"
            /\ IF parsed_doc = <<>>
               THEN /\ ret' = Ret("get_or_compute", 0,
                                  [entity_type |-> r.entity_type,
                                   entity_id |-> r.entity_id], NoVector)
                    /\ resolutions' = [resolutions EXCEPT ![p] = Idle]
               ELSE /\ ret' = Ret("resolving", 0, NoArgs, 0)
                    /\ resolutions' =
                           [resolutions EXCEPT ![p].pc = "projected",
                                               ![p].text = _text_to_features(
                                                   parsed_doc[1].parsed_data,
                                                   r.entity_type)]
    /\ UNCHANGED <<now, pg, parsed_resumes, parsed_jds, cache, nwrites>>

\* the projection, the store_embedding of the vector with the hash of the
\* feature string, and the return of the vector
ResolveStore ==
    /\ \E p \in Procs :
        LET r == resolutions[p]
        IN  /\ r.pc = "projected"
            /\ cache' = embed_and_cache(cache, r.entity_type, r.entity_id,
                                        r.text, now).cache
            /\ ret' = Ret("get_or_compute", 0,
                          [entity_type |-> r.entity_type, entity_id |-> r.entity_id],
                          EmbeddingOf[r.text])
            /\ resolutions' = [resolutions EXCEPT ![p] = Idle]
    /\ UNCHANGED <<now, pg, parsed_resumes, parsed_jds, nwrites>>

\* EmbeddingCacheService.get_embedding called directly: the document find_one
\* returns, or none
GetEmbedding ==
    /\ \E entity_type \in EntityTypes :
        \E entity_id \in (IF entity_type = "student" THEN Cands ELSE Jobs) :
            \/ /\ CacheDocs(cache, entity_type, entity_id) = {}
               /\ ret' = Ret("get_embedding", 0,
                             [entity_type |-> entity_type, entity_id |-> entity_id],
                             [found |-> FALSE, embedding |-> NoVector,
                              text_hash |-> <<>>])
            \/ \E d \in CacheDocs(cache, entity_type, entity_id) :
                   ret' = Ret("get_embedding", 0,
                              [entity_type |-> entity_type, entity_id |-> entity_id],
                              [found |-> TRUE, embedding |-> d.embedding,
                               text_hash |-> d.text_hash])
    /\ UNCHANGED <<now, pg, mongo>>

\* generate_recommendations with a min_score that has more than 4 decimals
GenerateNearThreshold ==
    /\ \E c \in Cands, top_n \in RouteTopNs, min_score \in NearMinScores,
          open_jobs \in Perms(OpenJobs(jobs)) :
        LET g == generate_recommendations(cache, parsed_resumes, parsed_jds, jobs,
                                          open_jobs, c, top_n, min_score, now)
        IN  /\ cache' = g.cache
            /\ ret' = Ret("generate", c,
                          [top_n |-> top_n, min_score |-> min_score,
                           open_jobs |-> open_jobs],
                          [result |-> g.result, raised |-> g.raised])
    /\ UNCHANGED <<now, pg, parsed_resumes, parsed_jds, nwrites, resolutions>>

\* RecommendationService._generate_reason called on a recommendation dict
GenerateReason ==
    /\ \E match_score \in ReasonScores, skill_match_pct \in ReasonSkillPcts,
          experience_match \in BOOLEAN :
        ret' = Ret("_generate_reason", 0,
                   [match_score |-> match_score, skill_match_pct |-> skill_match_pct,
                    experience_match |-> experience_match],
                   _generate_reason([match_score |-> match_score,
                                     skill_match_pct |-> skill_match_pct,
                                     experience_match |-> experience_match]))
    /\ UNCHANGED <<now, pg, mongo>>

Next ==
    \/ Tick
    \/ UpdateJobStatus
    \/ Store
    \/ List
    \/ MarkViewed
    \/ MarkApplied
    \/ InsertResume
    \/ InsertJD
    \/ PutEmbedding
    \/ GetStudentEmbedding
    \/ GetJobEmbedding
    \/ Generate
    \/ GenerateRoute
    \/ ApplyToJob
    \/ BeginStore
    \/ StoreExecute
    \/ CommitStore
    \/ RollbackStore
    \/ SkillMatch
    \/ ExperienceMatch
    \/ ScoreOne
    \/ CosineSimilarity
    \/ ResolveCache
    \/ ResolveDocument
    \/ ResolveStore
    \/ GetEmbedding
    \/ GenerateNearThreshold
    \/ GenerateReason

Spec == Init /\ [][Next]_vars

\* store_recommendations calls that run at the same time, statement by statement
NextSessions == BeginStore \/ StoreExecute \/ CommitStore \/ RollbackStore
SpecSessions == Init /\ [][NextSessions]_vars

\* the pure functions of the scoring kernel, each on inputs of bounded sets
SpecSkill == Init /\ [][SkillMatch]_vars
SpecExperience == Init /\ [][ExperienceMatch]_vars
SpecScore == Init /\ [][ScoreOne]_vars
SpecCosine == Init /\ [][CosineSimilarity]_vars
SpecReason == Init /\ [][GenerateReason]_vars

\* applications and the recommendation store: apply_to_job, store, list
NextApply == ApplyToJob \/ Store \/ List
SpecApply == Init /\ [][NextApply]_vars

\* the recommendation store under store, mark_viewed and mark_applied
NextMarks == Store \/ MarkViewed \/ MarkApplied \/ Tick
SpecMarks == Init /\ [][NextMarks]_vars

\* the recommendation store under store, mark_applied, expiry and closing jobs
NextList == Store \/ MarkApplied \/ Tick \/ UpdateJobStatus \/ List
SpecList == Init /\ [][NextList]_vars

\* the documents, the embedding cache, the job statuses and generate
NextGen ==
    \/ InsertResume
    \/ InsertJD
    \/ PutEmbedding
    \/ UpdateJobStatus
    \/ Generate
SpecGen == Init /\ [][NextGen]_vars

\* generate next to the recommendation store, in the order of use: at most
\* FrameDocs documents are parsed, all before the first store; a store follows a
\* generate that returned jobs and is for its candidate; list, the marks and
\* further generate calls come at any time
FrameDocs == 2

NextFrame ==
    \/ (nstores = 0 /\ nwrites < FrameDocs /\ InsertResume)
    \/ (nstores = 0 /\ nwrites < FrameDocs /\ InsertJD)
    \/ Generate
    \/ (/\ nstores = 0
        /\ ret.op = "generate"
        /\ ret.val.result # <<>>
        /\ Store
        /\ ret'.student_id = ret.student_id)
    \/ List
    \/ MarkViewed
    \/ MarkApplied
SpecFrame == Init /\ [][NextFrame]_vars

\* vector resolutions that run at the same time, step by step, next to
\* documents being parsed, direct puts and direct gets
NextResolve ==
    \/ InsertResume
    \/ InsertJD
    \/ PutEmbedding
    \/ ResolveCache
    \/ ResolveDocument
    \/ ResolveStore
    \/ GetEmbedding
SpecResolve == Init /\ [][NextResolve]_vars

\* the documents, the embedding cache and generate with a min_score between
\* two values of 4 decimals
NextThreshold ==
    \/ InsertResume
    \/ InsertJD
    \/ PutEmbedding
    \/ GenerateNearThreshold
SpecThreshold == Init /\ [][NextThreshold]_vars

\* the documents, the embedding cache and POST /recommendations/generate
NextRoute ==
    \/ InsertResume
    \/ InsertJD
    \/ PutEmbedding
    \/ GenerateRoute
SpecRoute == Init /\ [][NextRoute]_vars

\* the documents and the embedding cache under get_student_embedding and
\* get_job_embedding
NextCache ==
    \/ InsertResume
    \/ InsertJD
    \/ PutEmbedding
    \/ GetStudentEmbedding
    \/ GetJobEmbedding
SpecCache == Init /\ [][NextCache]_vars

----------------------------------------------------------------------------
(* The recommendation store: store, mark_viewed, mark_applied, list *)

\* the last element of the first k of a batch that is for job j, 0 if none
LastFor(batch, k, j) ==
    LET hits == {i \in 1..k : batch[i].job_id = j}
    IN  IF hits = {} THEN 0 ELSE CHOOSE i \in hits : \A h \in hits : h <= i

\* C1: a store that hits an existing row of (candidate, job) overwrites
\* match_score, skill_match_pct, experience_match, the reason, expires_at and
\* created_at with the values of the batch and of the call, and leaves
\* is_viewed and is_applied as they were.
C1_UpsertKeepsFlags ==
    [][(ret'.op = "store" /\ ret'.val >= 0) =>
        \A r \in recs :
            LET batch == ret'.args.batch
                i == LastFor(batch, Len(batch), r.job_id)
            IN  (r.student_id = ret'.student_id /\ i > 0) =>
                    \E r2 \in recs' :
                        /\ RowsOf(recs', r.student_id, r.job_id) = {r2}
                        /\ r2.is_viewed = r.is_viewed
                        /\ r2.is_applied = r.is_applied
                        /\ r2.match_score = batch[i].match_score
                        /\ r2.skill_match_pct = batch[i].skill_match_pct
                        /\ r2.experience_match = batch[i].experience_match
                        /\ r2.recommendation_reason = _generate_reason(batch[i])
                        /\ r2.expires_at = now + TTL_DAYS
                        /\ r2.created_at = now]_vars

\* a store has just rewritten, at a later time, a row that was viewed and
\* applied to
C1_Witness ==
    /\ ret.op = "store"
    /\ ret.val >= 1
    /\ now > 0
    /\ \E r \in recs :
        /\ r.student_id = ret.student_id
        /\ LastFor(ret.args.batch, Len(ret.args.batch), r.job_id) > 0
        /\ r.is_viewed
        /\ r.is_applied
        /\ r.created_at = now
        /\ r.match_score = 455000

\* C2: once mark_applied has set is_applied on a stored row, list with
\* include_applied = false does not contain the job and list with
\* include_applied = true contains it while the job is open and the row has not
\* expired; no later store of the pair takes the flag away.
C2_AppliedHiddenFromList ==
    /\ [](ret.op = "list" =>
            \A r \in recs :
                (r.student_id = ret.student_id /\ r.is_applied) =>
                    IF ret.args.include_applied
                    THEN (jobs[r.job_id].status = "open" /\ r.expires_at > now) =>
                            \E i \in DOMAIN ret.val : ret.val[i].job_id = r.job_id
                    ELSE \A i \in DOMAIN ret.val : ret.val[i].job_id # r.job_id)
    /\ [][\A r \in recs :
            r.is_applied =>
                \E r2 \in recs' :
                    /\ r2.student_id = r.student_id
                    /\ r2.job_id = r.job_id
                    /\ r2.is_applied]_vars

\* list(include_applied = false) after a row was stored, applied to and stored
\* again: the row is live, its job is open, and the list does not have it
C2_Witness ==
    /\ ret.op = "list"
    /\ ret.args.include_applied = FALSE
    /\ nstores = 2
    /\ \E r \in recs :
        /\ r.student_id = ret.student_id
        /\ r.is_applied
        /\ r.created_at > 0
        /\ r.expires_at > now
        /\ jobs[r.job_id].status = "open"
        /\ \A i \in DOMAIN ret.val : ret.val[i].job_id # r.job_id

\* C3: list(candidate, include_applied) returns each row of the candidate that
\* has expires_at later than now, an open job and (unless include_applied)
\* is_applied false, once, and nothing else, ordered by match_score descending.
C3_ListExactlyLiveRows ==
    ret.op = "list" =>
        /\ \A r \in recs :
            r \in Range(ret.val) <=>
                /\ r.student_id = ret.student_id
                /\ r.expires_at > now
                /\ jobs[r.job_id].status = "open"
                /\ (ret.args.include_applied \/ ~r.is_applied)
        /\ Range(ret.val) \subseteq recs
        /\ Cardinality(Range(ret.val)) = Len(ret.val)
        /\ \A i, k \in DOMAIN ret.val :
            i < k => ret.val[i].match_score >= ret.val[k].match_score

\* a list that returns a row while the table holds a row of the candidate that
\* has expired
C3_Witness ==
    /\ ret.op = "list"
    /\ ret.val # <<>>
    /\ \E r \in recs : r.student_id = ret.student_id /\ r.expires_at <= now

\* C4 as the specification states it: when the k-th write of a store fails, the
\* rows written before it are persisted with their new values
C4_PartialBatchPersists ==
    [][(ret'.op = "store" /\ ret'.args.failed_at >= 2) =>
        \A i \in 1..(ret'.args.failed_at - 1) :
            LET batch == ret'.args.batch
                last == LastFor(batch, ret'.args.failed_at - 1, batch[i].job_id)
            IN  \E r2 \in recs' :
                    /\ r2.student_id = ret'.student_id
                    /\ r2.job_id = batch[i].job_id
                    /\ r2.match_score = batch[last].match_score
                    /\ r2.expires_at = now + TTL_DAYS
                    /\ r2.created_at = now]_vars

\* C4: a store that fails while writing a row of its batch leaves the table as
\* it was before the call: no row of the batch is persisted, whichever write
\* failed.
C4_FailedStoreRollsBack ==
    [][(ret'.op = "store" /\ ret'.args.failed_at >= 1) => recs' = recs]_vars

\* a store has failed at its second write, over a table that already had a
\* row of the pair of its first write, older than the call
C4_Witness ==
    /\ ret.op = "store"
    /\ ret.args.failed_at = 2
    /\ ret.val = -1
    /\ \E r \in recs :
        /\ r.student_id = ret.student_id
        /\ r.job_id = ret.args.batch[1].job_id
        /\ r.created_at < now
        /\ r.match_score # ret.args.batch[1].match_score

----------------------------------------------------------------------------
(* generate *)

\* the candidate's and the job's vector in the cache
StudentVec(c) == get_embedding(cache, "student", c)

JobVec(j) == get_embedding(cache, "job", j)

\* the pair has a combined_score: the candidate has a profile and both vectors
\* are there and of one dimension
HasScore(c, j) ==
    /\ parsed_resumes[c] # <<>>
    /\ StudentVec(c) # NoVector
    /\ JobVec(j) # NoVector
    /\ Len(StudentVec(c)) = Len(JobVec(j))

\* combined_score of the specification for candidate c and job j, from the
\* vectors in the cache and the parsed documents
CombinedScoreOf(c, j) ==
    LET student_data == parsed_resumes[c][Len(parsed_resumes[c])].parsed_data
        normalized == (cosine_similarity(StudentVec(c), JobVec(j)) + ONE) \div 2
        skill == IF parsed_jds[j] = <<>> THEN ONE \div 2
                 ELSE compute_skill_match_percentage(
                          student_data.skills,
                          parsed_jds[j][1].parsed_data.required_skills)
        experience_ok ==
            IF parsed_jds[j] = <<>> THEN TRUE
            ELSE check_experience_match(student_data.experience_years,
                                        jobs[j].min_experience, jobs[j].max_experience)
    IN  (normalized * 5) \div 10 + (skill * 4) \div 10
        + (IF experience_ok THEN ONE ELSE ONE \div 2) \div 10

\* the open jobs of the last generate that have a combined_score >= min_score
Eligible ==
    {j \in Range(ret.args.open_jobs) :
        /\ HasScore(ret.student_id, j)
        /\ CombinedScoreOf(ret.student_id, j) >= ret.args.min_score}

ReturnedJobs == {ret.val.result[i].job_id : i \in DOMAIN ret.val.result}

PositionIn(seq, x) == CHOOSE i \in DOMAIN seq : seq[i] = x

\* C5 as the specification states it: generate returns the first top_n of the
\* eligible open jobs in descending order of combined_score, so no omitted
\* eligible job has a strictly higher combined_score than a returned one
C5_TopNByCombinedScore ==
    (ret.op = "generate" /\ ~ret.val.raised) =>
        LET c == ret.student_id
            result == ret.val.result
        IN  /\ Len(result) = Min(ret.args.top_n, Cardinality(Eligible))
            /\ Cardinality(ReturnedJobs) = Len(result)
            /\ ReturnedJobs \subseteq Eligible
            /\ \A j \in ReturnedJobs : jobs[j].status = "open"
            /\ \A i, k \in DOMAIN result :
                i < k => CombinedScoreOf(c, result[i].job_id)
                            >= CombinedScoreOf(c, result[k].job_id)
            /\ \A o \in Eligible \ ReturnedJobs : \A j \in ReturnedJobs :
                CombinedScoreOf(c, o) <= CombinedScoreOf(c, j)

\* C5: generate with top_n >= 0 returns the first top_n of the open jobs whose
\* combined_score >= min_score in descending order of match_score, which is
\* combined_score rounded to 4 decimals: at most top_n entries, no job twice,
\* only open jobs, and no omitted eligible job has a strictly higher rounded
\* score than a returned one.
C5_TopNByRoundedScore ==
    (ret.op = "generate" /\ ~ret.val.raised) =>
        LET c == ret.student_id
            result == ret.val.result
        IN  /\ Len(result) = Min(ret.args.top_n, Cardinality(Eligible))
            /\ Cardinality(ReturnedJobs) = Len(result)
            /\ ReturnedJobs \subseteq Eligible
            /\ \A j \in ReturnedJobs : jobs[j].status = "open"
            /\ \A i \in DOMAIN result :
                result[i].match_score = Round4(CombinedScoreOf(c, result[i].job_id))
            /\ \A i, k \in DOMAIN result :
                i < k => result[i].match_score >= result[k].match_score
            /\ \A o \in Eligible \ ReturnedJobs : \A i \in DOMAIN result :
                Round4(CombinedScoreOf(c, o)) <= result[i].match_score

\* generate with top_n = 1 has returned one of two eligible jobs: the one that
\* the enumeration had second, and that has the higher rounded score
C5_Witness ==
    /\ ret.op = "generate"
    /\ ~ret.val.raised
    /\ ret.args.top_n = 1
    /\ Len(ret.val.result) = 1
    /\ Cardinality(Eligible) = 2
    /\ ret.val.result[1].job_id = ret.args.open_jobs[2]
    /\ \E o \in Eligible \ ReturnedJobs :
        Round4(CombinedScoreOf(ret.student_id, o)) < ret.val.result[1].match_score

\* C6: two jobs of the output of generate that have equal combined_score are
\* in the relative order the open-jobs enumeration had them in.
C6_TiesKeepEnumerationOrder ==
    (ret.op = "generate" /\ ~ret.val.raised) =>
        LET c == ret.student_id
            result == ret.val.result
        IN  \A i, k \in DOMAIN result :
                (/\ i < k
                 /\ HasScore(c, result[i].job_id)
                 /\ HasScore(c, result[k].job_id)
                 /\ CombinedScoreOf(c, result[i].job_id)
                        = CombinedScoreOf(c, result[k].job_id)) =>
                    PositionIn(ret.args.open_jobs, result[i].job_id)
                        < PositionIn(ret.args.open_jobs, result[k].job_id)

\* generate has returned two jobs of equal combined_score, computed from
\* parsed documents, that the enumeration had in the order 2, 1
C6_Witness ==
    /\ ret.op = "generate"
    /\ ~ret.val.raised
    /\ Len(ret.val.result) = 2
    /\ ret.args.open_jobs = <<2, 1>>
    /\ parsed_jds[1] # <<>>
    /\ parsed_jds[2] # <<>>
    /\ CombinedScoreOf(ret.student_id, 1) = CombinedScoreOf(ret.student_id, 2)

\* C7 as the specification states it: an open job without a parsed document is
\* not left out for that; it is scored with skill_match_pct 50.0 and
\* experience_match true.  min_score 0.3 is what the defaults alone reach, and
\* top_n is no less than the number of open jobs.
C7_UnparsedJobScoredByDefault ==
    (/\ ret.op = "generate"
     /\ ~ret.val.raised
     /\ parsed_resumes[ret.student_id] # <<>>
     /\ ret.args.min_score <= 300000
     /\ ret.args.top_n >= Len(ret.args.open_jobs)) =>
        \A j \in Range(ret.args.open_jobs) :
            parsed_jds[j] = <<>> =>
                \E i \in DOMAIN ret.val.result :
                    /\ ret.val.result[i].job_id = j
                    /\ ret.val.result[i].skill_match_pct = ONE \div 2
                    /\ ret.val.result[i].experience_match = TRUE

\* C8: generate returns the empty list and does not raise when the candidate
\* has neither a cached vector nor a parsed profile, when the profile is absent
\* though a vector is cached, and when no job is open; in these cases the
\* recommendations table is left as it is.
C8_EmptyWithoutVectorProfileOrJobs ==
    [][(/\ ret'.op = "generate"
        /\ LET c == ret'.student_id
           IN  \/ (get_embedding(cache, "student", c) = NoVector
                   /\ parsed_resumes[c] = <<>>)
               \/ (get_embedding(cache, "student", c) # NoVector
                   /\ parsed_resumes[c] = <<>>)
               \/ {j \in Jobs : jobs[j].status = "open"} = {}) =>
            /\ ret'.val.result = <<>>
            /\ ret'.val.raised = FALSE
            /\ recs' = recs]_vars

\* generate has returned the empty list for a candidate whose vector is cached
\* and whose profile is absent, with an open job that has a parsed document
C8_Witness ==
    /\ ret.op = "generate"
    /\ ret.val.result = <<>>
    /\ ~ret.val.raised
    /\ parsed_resumes[ret.student_id] = <<>>
    /\ StudentVec(ret.student_id) # NoVector
    /\ \E j \in Range(ret.args.open_jobs) : parsed_jds[j] # <<>>

----------------------------------------------------------------------------
(* The embedding cache: get_student_embedding, get_job_embedding *)

IsResolve(r) == r.op \in {"get_student_embedding", "get_job_embedding"}

ResolvedType(r) == IF r.op = "get_student_embedding" THEN "student" ELSE "job"

ResolvedId(r) == IF r.op = "get_student_embedding" THEN r.student_id ELSE r.args.job_id

\* the source document the service reads for the entity: <<>> or <<doc>>
SourceDoc(entity_type, entity_id) ==
    IF entity_type = "student" THEN get_by_student(parsed_resumes, entity_id)
    ELSE get_by_job(parsed_jds, entity_id)

\* the cache entry a projection of the document writes at time t
ProjectedEntry(entity_type, entity_id, doc, t) ==
    LET text == _text_to_features(doc.parsed_data, entity_type)
    IN  [entity_type |-> entity_type, entity_id |-> entity_id,
         embedding |-> _generate_simple_embedding(text),
         text_hash |-> _compute_text_hash(text), created_at |-> t]

OtherEntries(coll, entity_type, entity_id) ==
    {d \in coll : ~(d.entity_type = entity_type /\ d.entity_id = entity_id)}

\* with force = false and a cached vector: the vector is returned and the cache
\* is not written
UnforcedHitReturnsCached ==
    LET ty == ResolvedType(ret')
        id == ResolvedId(ret')
        cached == get_embedding(cache, ty, id)
    IN  (~ret'.args.force /\ cached # NoVector) =>
            /\ ret'.val = cached
            /\ cache' = cache

\* with force = true and a source document: the vector is the projection of
\* the document and the entry of the entity is that projection's
ForcedReprojects ==
    LET ty == ResolvedType(ret')
        id == ResolvedId(ret')
        entry == ProjectedEntry(ty, id, SourceDoc(ty, id)[1], now)
    IN  /\ ret'.val = entry.embedding
        /\ CacheDocs(cache', ty, id) = {entry}
        /\ OtherEntries(cache', ty, id) = OtherEntries(cache, ty, id)

C10_ResolvedVectorIsCurrent ==
    [][(/\ IsResolve(ret')
        /\ ~ret'.args.force
        /\ SourceDoc(ResolvedType(ret'), ResolvedId(ret')) # <<>>
        /\ LET ty == ResolvedType(ret')
               id == ResolvedId(ret')
               docs == IF ty = "student" THEN parsed_resumes[id] ELSE parsed_jds[id]
           IN  \A d \in CacheDocs(cache, ty, id) :
                   \E i \in DOMAIN docs :
                       d.text_hash = ProjectedEntry(ty, id, docs[i], now).text_hash) =>
            LET ty == ResolvedType(ret')
                id == ResolvedId(ret')
            IN  ret'.val = ProjectedEntry(ty, id, SourceDoc(ty, id)[1], now).embedding]_vars

----------------------------------------------------------------------------
(* Concurrent store calls *)

\* row r carries the values session s stores for one element of its batch
StoredBy(r, s) ==
    /\ r.student_id = s.student_id
    /\ r.expires_at = s.expires_at
    /\ r.created_at = s.started
    /\ \E k \in DOMAIN s.recommendations :
        LET rec == s.recommendations[k]
        IN  /\ r.job_id = rec.job_id
            /\ r.match_score = rec.match_score
            /\ r.skill_match_pct = rec.skill_match_pct
            /\ r.experience_match = rec.experience_match
            /\ r.recommendation_reason = _generate_reason(rec)

\* C11: whatever store calls have run, one after another or at the same time
\* on overlapping jobs of one candidate, the table holds at most one row for
\* a pair (student_id, job_id), and the stored values of every row (scores,
\* reason, expires_at, created_at) are those of one committed store call
C11_OneRowOfOneStorePerPair ==
    /\ \A r1 \in recs : \A r2 \in recs :
           (r1.student_id = r2.student_id /\ r1.job_id = r2.job_id) => r1 = r2
    /\ \A r \in recs :
           \E i \in DOMAIN sessions :
               sessions[i].state = "committed" /\ StoredBy(r, sessions[i])

\* two store calls of one candidate were open at the same time, both wrote the
\* row of the same job with different scores, and both have committed
C11_Witness ==
    /\ Len(sessions) = 2
    /\ sessions[2].overlaps = {1}
    /\ sessions[1].state = "committed"
    /\ sessions[2].state = "committed"
    /\ sessions[1].student_id = sessions[2].student_id
    /\ \E r \in recs :
        /\ r.student_id = sessions[1].student_id
        /\ \E k1 \in DOMAIN sessions[1].recommendations :
           \E k2 \in DOMAIN sessions[2].recommendations :
               /\ sessions[1].recommendations[k1].job_id = r.job_id
               /\ sessions[2].recommendations[k2].job_id = r.job_id
               /\ sessions[1].recommendations[k1].match_score
                      # sessions[2].recommendations[k2].match_score

----------------------------------------------------------------------------
(* Expiry *)

\* C12: every row a store call writes at time t, inserted or updated, has
\* expires_at = t + 7 days; so every row expires 7 days after the last store
\* of its pair, list returns no row later than that, and a later store of the
\* pair moves the expiry to 7 days after that store
C12_ExpiresSevenDaysAfterLastStore ==
    /\ [][(ret'.op = "store" /\ ret'.val >= 0) =>
            \A k \in DOMAIN ret'.args.batch :
                \E r \in recs' :
                    /\ RowsOf(recs', ret'.student_id, ret'.args.batch[k].job_id) = {r}
                    /\ r.expires_at = now + TTL_DAYS
                    /\ r.created_at = now]_vars
    /\ [](\A r \in recs : r.expires_at = r.created_at + TTL_DAYS)
    /\ [](ret.op = "list" =>
            \A i \in DOMAIN ret.val : now < ret.val[i].created_at + TTL_DAYS)

\* more than 7 days after the first store, list returns the only row of the
\* table, which two store calls have written: the second one at a later time
C12_Witness ==
    /\ ret.op = "list"
    /\ now > TTL_DAYS
    /\ nstores = 2
    /\ Cardinality(recs) = 1
    /\ Len(ret.val) = 1
    /\ ret.val[1].created_at > 0
    /\ ret.val[1].expires_at > now

----------------------------------------------------------------------------
(* Applications *)

\* C13 as the specification states it: list with include_applied = false
\* returns no job the candidate has applied to, in whatever order apply-to-job,
\* store and list were called
C13_AppliedJobNeverListed ==
    ret.op = "list" /\ ~ret.args.include_applied =>
        \A i \in DOMAIN ret.val :
            ~\E a \in applications :
                a.student_id = ret.student_id /\ a.job_id = ret.val[i].job_id

----------------------------------------------------------------------------
(* generate called twice *)

----------------------------------------------------------------------------
(* Dimension mismatch *)

\* the candidate of the last operation has a profile and a vector, and an
\* open job that the call enumerated has a vector of another length
MismatchFor(r) ==
    /\ parsed_resumes[r.student_id] # <<>>
    /\ StudentVec(r.student_id) # NoVector
    /\ \E k \in DOMAIN r.args.open_jobs :
        /\ JobVec(r.args.open_jobs[k]) # NoVector
        /\ Len(JobVec(r.args.open_jobs[k])) # Len(StudentVec(r.student_id))

\* C15: when the candidate's vector and the vector of an open job differ in
\* length, cosine_similarity raises and generate raises with it: no list comes
\* back, not even the jobs scored before, the route answers 500 and the
\* recommendation table is left as it was; without such a job nothing is raised
C15_MismatchRaisesAndWritesNothing ==
    /\ [](ret.op = "generate_route" /\ ret.val.status # 400 =>
            /\ ret.val.raised <=> MismatchFor(ret)
            /\ ret.val.raised => (ret.val.result = <<>> /\ ret.val.status = 500))
    /\ [][(ret'.op = "generate_route" /\ ret'.val.raised) =>
            (recs' = recs /\ nstores' = nstores)]_vars

\* generate has raised on the second job it enumerated, after a job it could
\* score, while the table holds rows of an earlier call
C15_Witness ==
    /\ ret.op = "generate_route"
    /\ ret.val.raised
    /\ recs # {}
    /\ Len(ret.args.open_jobs) = 2
    /\ Len(JobVec(ret.args.open_jobs[1])) = Len(StudentVec(ret.student_id))
    /\ Len(JobVec(ret.args.open_jobs[2])) # Len(StudentVec(ret.student_id))

----------------------------------------------------------------------------
(* Embedding cache: put and get *)

\* C16: after put(kind, id, vector, hash) get(kind, id) returns the vector
\* that was put, whether the key had an entry before or not; the cache holds
\* one entry for the key, and the entries of every other key, the same id
\* under the other kind included, are what they were
C16_PutThenGet ==
    [][ret'.op = "put" =>
        LET entity_type == ret'.args.entity_type
            entity_id == ret'.args.entity_id
        IN  /\ get_embedding(cache', entity_type, entity_id) = ret'.val
            /\ Cardinality(CacheDocs(cache', entity_type, entity_id)) = 1
            /\ OtherEntries(cache', entity_type, entity_id)
                   = OtherEntries(cache, entity_type, entity_id)]_vars

\* three puts and nothing else have left two entries, so one put has replaced
\* an entry; the last put is returned by get, and the same id holds another
\* vector under the other kind
C16_Witness ==
    /\ ret.op = "put"
    /\ nwrites = 3
    /\ Cardinality(cache) = 2
    /\ \A c \in Cands : parsed_resumes[c] = <<>>
    /\ \A j \in Jobs : parsed_jds[j] = <<>>
    /\ get_embedding(cache, ret.args.entity_type, ret.args.entity_id) = ret.val
    /\ \E d \in cache :
        /\ d.entity_type # ret.args.entity_type
        /\ d.entity_id = ret.args.entity_id
        /\ d.embedding # ret.val

----------------------------------------------------------------------------
(* mark_viewed and mark_applied *)

\* the flag an operation sets
FlagOf(op) == IF op = "mark_viewed" THEN "is_viewed" ELSE "is_applied"

\* C17: mark_viewed and mark_applied return true exactly when the table holds
\* a row for (candidate, job), expired or not and flagged already or not; the
\* row gets the flag of the operation set and keeps everything else, every
\* other row stays as it is, and the same call made again returns the same
\* and changes nothing
C17_MarksAreIdempotentFlagSets ==
    /\ [][ret'.op \in {"mark_viewed", "mark_applied"} =>
            LET c == ret'.student_id
                j == ret'.args.job_id
                flag == FlagOf(ret'.op)
                hit == {r \in recs : r.student_id = c /\ r.job_id = j}
            IN  /\ ret'.val = (hit # {})
                /\ recs' = (recs \ hit) \cup {[r EXCEPT ![flag] = TRUE] : r \in hit}
                /\ (\A r \in hit : r[flag]) => recs' = recs]_vars
    /\ [][(/\ ret.op \in {"mark_viewed", "mark_applied"}
           /\ ret'.op = ret.op
           /\ ret'.student_id = ret.student_id
           /\ ret'.args = ret.args) => (recs' = recs /\ ret'.val = ret.val)]_vars

\* mark_viewed has returned true for a row that has expired and that is not
\* flagged as applied, while the candidate has a second row that is not viewed
C17_Witness ==
    /\ ret.op = "mark_viewed"
    /\ ret.val = TRUE
    /\ \E r \in recs :
        /\ r.student_id = ret.student_id
        /\ r.job_id = ret.args.job_id
        /\ r.expires_at <= now
        /\ r.is_viewed
        /\ ~r.is_applied
    /\ \E r \in recs :
        /\ r.student_id = ret.student_id
        /\ r.job_id # ret.args.job_id
        /\ ~r.is_viewed

----------------------------------------------------------------------------
(* The scoring kernel as pure functions *)

\* the other spelling of a skill name, one of its two letter cases
SwapCase(s) ==
    CASE s = "Python" -> "python"
      [] s = "python" -> "Python"
      [] s = "SQL" -> "sql"
      [] s = "sql" -> "SQL"
      [] s = "Docker" -> "docker"
      [] s = "docker" -> "Docker"
      [] OTHER -> s

Recased(skills) == [i \in DOMAIN skills |-> SwapCase(skills[i])]

Reversed(skills) == [i \in DOMAIN skills |-> skills[Len(skills) + 1 - i]]

\* C18: skill_match_percentage is 100% for an empty list of required skills
\* and otherwise the share of the lower-cased, de-duplicated required skills
\* that are among the lower-cased candidate skills; it lies between 0 and
\* 100%, and writing either list in the other letter case, in reverse order
\* or twice over gives the same value
C18_SkillMatchIsShareOfRequired ==
    ret.op = "skill_match" =>
        LET cand == ret.args.student_skills
            req == ret.args.required_skills
            Lc == {Lower(cand[i]) : i \in DOMAIN cand}
            Lr == {Lower(req[i]) : i \in DOMAIN req}
        IN  /\ req = <<>> => ret.val = ONE
            /\ req # <<>> =>
                   ret.val = (ONE * Cardinality(Lc \cap Lr)) \div Cardinality(Lr)
            /\ ret.val >= 0
            /\ ret.val <= ONE
            /\ compute_skill_match_percentage(Recased(cand), req) = ret.val
            /\ compute_skill_match_percentage(cand, Recased(req)) = ret.val
            /\ compute_skill_match_percentage(Reversed(cand), Reversed(req)) = ret.val
            /\ compute_skill_match_percentage(cand \o cand, req \o req) = ret.val

\* the required list names one skill twice, in two letter cases, and another
\* skill; the candidate has the first one in lower case: one of two, 50%
C18_Witness ==
    /\ ret.op = "skill_match"
    /\ ret.args.required_skills = <<"Python", "python", "SQL">>
    /\ ret.args.student_skills = <<"python">>
    /\ ret.val = ONE \div 2

\* C19: for years >= 0, min_required >= 0 and max_required a number or unset,
\* experience_match is true exactly when years >= min_required and
\* max_required is unset or years <= max_required + 2; max_required = 0 is a
\* bound like any other
C19_ExperienceWithinBoundsPlusTwo ==
    ret.op = "experience_match" =>
        LET years == ret.args.student_experience
            lo == ret.args.min_required
            hi == ret.args.max_required
        IN  ret.val = (/\ years >= 10 * lo
                       /\ (hi = Unset \/ years <= 10 * (hi + 2)))

\* with max_required = 0 a candidate of 2.1 years is refused
C19_Witness ==
    /\ ret.op = "experience_match"
    /\ ret.args.max_required = 0
    /\ ret.args.min_required = 0
    /\ ret.args.student_experience = 21
    /\ ret.val = FALSE

\* C20: the score that is compared with min_score is
\* 0.5 * ((s + 1) / 2) + 0.4 * (skill_match_pct / 100) + 0.1 * (1 or 0.5) for
\* cosine similarity s, and the dict that is appended carries it rounded to 4
\* places; for every s in [-1, 1] and skill_match_pct in [0, 100] the
\* match_score lies in [0, 1] and the skill_match_pct in [0, 100].
\* (Twenty times the score is compared, to stay in whole numbers; 1060 is the
\* rounding to 4 places plus the truncation of the three products.)
C20_CombinedScoreFormulaAndRange ==
    ret.op = "score" =>
        LET s == ret.args.similarity
            pct == ret.args.skill_match_pct
            twenty_times == 5 * (s + ONE) + 8 * pct
                            + (IF ret.args.experience_match THEN 2 * ONE ELSE ONE)
        IN  /\ twenty_times >= 20 * ret.args.min_score + 60 => ret.val # <<>>
            /\ twenty_times < 20 * ret.args.min_score => ret.val = <<>>
            /\ ret.val # <<>> =>
                /\ Len(ret.val) = 1
                /\ Abs(20 * ret.val[1].match_score - twenty_times) <= 1060
                /\ ret.val[1].match_score >= 0
                /\ ret.val[1].match_score <= ONE
                /\ Abs(ret.val[1].skill_match_pct - pct) <= 50
                /\ ret.val[1].skill_match_pct >= 0
                /\ ret.val[1].skill_match_pct <= ONE
                /\ ret.val[1].experience_match = ret.args.experience_match

\* the top of the range: similarity 1, all required skills, experience met
C20_Witness ==
    /\ ret.op = "score"
    /\ ret.args.similarity = ONE
    /\ ret.args.skill_match_pct = ONE
    /\ ret.args.experience_match
    /\ ret.val # <<>>
    /\ ret.val[1].match_score = ONE

----------------------------------------------------------------------------
(* The end-to-end example *)

\* candidate c has skills Python, SQL, Docker and 1 year of experience; job j
\* requires Python, SQL, Docker and 0 to 3 years
EndToEndPair(c, j) ==
    /\ parsed_resumes[c] # <<>>
    /\ parsed_jds[j] # <<>>
    /\ LET student_data == parsed_resumes[c][Len(parsed_resumes[c])].parsed_data
       IN  /\ student_data.skills = <<"Python", "SQL", "Docker">>
           /\ student_data.experience_years = 10
    /\ parsed_jds[j][1].parsed_data.required_skills = <<"Python", "SQL", "Docker">>
    /\ jobs[j].min_experience = 0
    /\ jobs[j].max_experience = 3

\* C21 as the specification states it: the pair of the example is scored with
\* skill_match_pct = 100, experience_match = true and a combined score of at
\* least 0.9, whatever the similarity of the two vectors
C21_ExampleScoresAtLeastNineTenths ==
    (ret.op = "generate" /\ ~ret.val.raised) =>
        \A i \in DOMAIN ret.val.result :
            EndToEndPair(ret.student_id, ret.val.result[i].job_id) =>
                /\ ret.val.result[i].skill_match_pct = ONE
                /\ ret.val.result[i].experience_match
                /\ ret.val.result[i].match_score >= 900000

\* C21: the pair of the example is scored with skill_match_pct = 100,
\* experience_match = true and the combined score 0.5 + 0.5 * (s + 1) / 2 for
\* similarity s of the two vectors: at least 0.5, and at least 0.9 when
\* s >= 0.6
C21_ExampleScoresHalfPlusHalfSimilarity ==
    (ret.op = "generate" /\ ~ret.val.raised) =>
        \A i \in DOMAIN ret.val.result :
            LET c == ret.student_id
                j == ret.val.result[i].job_id
                s == cosine_similarity(StudentVec(c), JobVec(j))
            IN  EndToEndPair(c, j) =>
                    /\ ret.val.result[i].skill_match_pct = ONE
                    /\ ret.val.result[i].experience_match
                    /\ ret.val.result[i].match_score
                           = Round4(ONE \div 2 + (5 * ((s + ONE) \div 2)) \div 10)
                    /\ ret.val.result[i].match_score >= ONE \div 2
                    /\ s >= 600000 => ret.val.result[i].match_score >= 900000

\* the pair of the example has been scored with two vectors of similarity 0:
\* skill_match_pct 100, experience met, match_score 0.75
C21_Witness ==
    /\ ret.op = "generate"
    /\ \E i \in DOMAIN ret.val.result :
        /\ EndToEndPair(ret.student_id, ret.val.result[i].job_id)
        /\ ret.val.result[i].skill_match_pct = ONE
        /\ ret.val.result[i].experience_match
        /\ ret.val.result[i].match_score = 750000

----------------------------------------------------------------------------
(* cosine_similarity *)

\* "within tolerance" in the fixed point of the model: the two norms are square
\* roots truncated to thousandths, each short by less than one part in a
\* thousand of a norm near 1, so the quotient is off by less than three
CosTolerance == 3 * (ONE \div 1000)

IsZeroVector(v) == \A i \in DOMAIN v : v[i] = 0

\* C22 as the specification states it: for every vector v, of any length and
\* content, cosine_similarity(v, v) is 1.0 within tolerance and
\* cosine_similarity(v, -v) is -1.0
C22_SelfSimilarityIsOne ==
    ret.op = "cosine_similarity" =>
        /\ ret.args.vec2 = ret.args.vec1 =>
               (~ret.val.raised /\ Abs(ret.val.value - ONE) < CosTolerance)
        /\ ret.args.vec2 = Negated(ret.args.vec1) =>
               (~ret.val.raised /\ Abs(ret.val.value + ONE) < CosTolerance)

\* C22: for every vector v that has a non-zero coordinate,
\* cosine_similarity(v, v) is 1.0 and cosine_similarity(v, -v) is -1.0 within
\* tolerance; for the empty vector and for an all-zero vector both are 0.0
C22_SelfSimilarityOfNonZeroIsOne ==
    ret.op = "cosine_similarity" =>
        LET v == ret.args.vec1
        IN  /\ (ret.args.vec2 = v /\ ~IsZeroVector(v)) =>
                   (~ret.val.raised /\ Abs(ret.val.value - ONE) < CosTolerance)
            /\ (ret.args.vec2 = Negated(v) /\ ~IsZeroVector(v)) =>
                   (~ret.val.raised /\ Abs(ret.val.value + ONE) < CosTolerance)
            /\ (ret.args.vec2 = v /\ IsZeroVector(v)) =>
                   (~ret.val.raised /\ ret.val.value = 0)

\* cosine_similarity has been called on a vector of three non-zero
\* coordinates and its negation
C22_Witness ==
    /\ ret.op = "cosine_similarity"
    /\ ret.args.vec1 = <<-200, 400, -400>>
    /\ ret.args.vec2 = <<200, -400, 400>>
    /\ ~ret.val.raised
    /\ ret.val.value < CosTolerance - ONE

\* C23: cosine_similarity of two vectors of one length is 0.0, and does not
\* raise, when one of them or both are all zero; generate scores such a job
\* with the normalized similarity 0.5 and returns it like any other job
C23_ZeroVectorScoresHalf ==
    ret.op = "generate" =>
        /\ ret.val.raised => MismatchFor(ret)
        /\ \A k \in DOMAIN ret.args.open_jobs :
            LET c == ret.student_id
                j == ret.args.open_jobs[k]
            IN  (/\ HasScore(c, j)
                 /\ IsZeroVector(StudentVec(c)) \/ IsZeroVector(JobVec(j))) =>
                    /\ cosine_similarity(StudentVec(c), JobVec(j)) = 0
                    /\ \A i \in DOMAIN ret.val.result :
                           ret.val.result[i].job_id = j =>
                               ret.val.result[i].embedding_similarity = ONE \div 2
                    /\ (/\ ~ret.val.raised
                        /\ ret.args.top_n >= Len(ret.args.open_jobs)
                        /\ CombinedScoreOf(c, j) >= ret.args.min_score) =>
                           j \in ReturnedJobs

\* generate has returned a job whose cached vector is all zero, scored against
\* a candidate vector that is not
C23_Witness ==
    /\ ret.op = "generate"
    /\ ~IsZeroVector(StudentVec(ret.student_id))
    /\ \E i \in DOMAIN ret.val.result :
        /\ JobVec(ret.val.result[i].job_id) # NoVector
        /\ IsZeroVector(JobVec(ret.val.result[i].job_id))
        /\ ret.val.result[i].embedding_similarity = ONE \div 2

----------------------------------------------------------------------------
(* Several parsed documents of one entity *)

\* the document with the greatest parsed_at: documents are inserted with
\* parsed_at = utcnow(), so it is the one inserted last
LatestDoc(docs) == docs[Len(docs)]

\* C24 as the specification states it: with several parsed documents of a
\* candidate or of a job, generate scores the skills of the latest document of
\* each (greatest parsed_at)
C24_ScoresSkillsOfLatestDocuments ==
    ret.op = "generate" =>
        \A i \in DOMAIN ret.val.result :
            LET c == ret.student_id
                j == ret.val.result[i].job_id
            IN  parsed_jds[j] # <<>> =>
                    ret.val.result[i].skill_match_pct =
                        Round4(compute_skill_match_percentage(
                            LatestDoc(parsed_resumes[c]).parsed_data.skills,
                            LatestDoc(parsed_jds[j]).parsed_data.required_skills))

----------------------------------------------------------------------------
(* What generate and the recommendation store leave alone *)

\* C25: generate changes no parsed document and no recommendation row, keeps
\* every entry of the embedding cache as it is and adds entries only for
\* entities that had none; store, list, mark_viewed and mark_applied change
\* neither the parsed documents nor the embedding cache
C25_GenerateWritesOnlyMissingVectors ==
    [][/\ ret'.op = "generate" =>
            /\ parsed_resumes' = parsed_resumes
            /\ parsed_jds' = parsed_jds
            /\ recs' = recs
            /\ cache \subseteq cache'
            /\ \A d \in cache' \ cache :
                   CacheDocs(cache, d.entity_type, d.entity_id) = {}
       /\ ret'.op \in {"store", "list", "mark_viewed", "mark_applied"} =>
            /\ parsed_resumes' = parsed_resumes
            /\ parsed_jds' = parsed_jds
            /\ cache' = cache]_vars

\* generate has returned a job and cached vectors while recommendation rows of
\* an earlier store exist
C25_Witness ==
    /\ ret.op = "generate"
    /\ ret.val.result # <<>>
    /\ recs # {}
    /\ \A i \in DOMAIN ret.val.result :
           CacheDocs(cache, "job", ret.val.result[i].job_id) # {}

----------------------------------------------------------------------------
(* The profile version behind one generate call *)

\* C26 as the specification states it: the candidate vector a generate call
\* scores with and the skills and experience it scores with come from one
\* version of the candidate's parsed profile, also when the profile has been
\* replaced since an earlier generate call: the vector, when it was projected
\* from a profile of the candidate, is the projection of the profile read
C26_VectorAndSkillsOfOneProfile ==
    (ret.op = "generate" /\ ret.val.result # <<>>) =>
        LET c == ret.student_id
            docs == parsed_resumes[c]
        IN  (\A d \in CacheDocs(cache, "student", c) :
                 \E i \in DOMAIN docs :
                     d.text_hash = ProjectedEntry("student", c, docs[i], now).text_hash) =>
                StudentVec(c) =
                    ProjectedEntry("student", c, LatestDoc(docs), now).embedding

----------------------------------------------------------------------------
(* The rows a store leaves alone *)

\* the jobs of a batch
BatchJobs(batch) == {batch[i].job_id : i \in DOMAIN batch}

\* C27: store(candidate, batch) deletes no row, leaves every row of the
\* candidate for a job outside the batch and every row of other candidates
\* unchanged, and adds rows only for the candidate and jobs of the batch
C27_StoreTouchesOnlyBatchRows ==
    [][ret'.op = "store" =>
        /\ \A r \in recs : HasRow(recs', r.student_id, r.job_id)
        /\ \A r \in recs :
               (r.student_id # ret'.student_id
                \/ r.job_id \notin BatchJobs(ret'.args.batch)) => r \in recs'
        /\ \A r2 \in recs' \ recs :
               /\ r2.student_id = ret'.student_id
               /\ r2.job_id \in BatchJobs(ret'.args.batch)]_vars

\* list returns, next to a row of the candidate's latest store, a row of an
\* earlier store whose job the latest batch did not have
C27_Witness ==
    /\ ret.op = "list"
    /\ nstores = 2
    /\ \E i, k \in DOMAIN ret.val :
        /\ ret.val[i].created_at < ret.val[k].created_at
        /\ ret.val[k].created_at = now
        /\ \A r \in recs : r.created_at <= ret.val[k].created_at

----------------------------------------------------------------------------
(* Concurrent vector resolutions and puts *)

\* vector and text_hash are those of one write: of a direct put, or of the
\* projection of one feature string
OfOneWrite(embedding, text_hash) ==
    \/ embedding \in PutVectors /\ text_hash = ForeignHash
    \/ \E text \in FeatureTexts :
           /\ embedding = EmbeddingOf[text]
           /\ text_hash = _compute_text_hash(text)

\* C28: under every interleaving of vector resolutions and puts for one key,
\* the embedding cache holds at most one entry for the key, every entry holds
\* the vector and the text_hash of one single write, and a get returns either
\* nothing or the vector and text_hash of the entry of the key
C28_OneEntryOfOneWrite ==
    /\ \A entity_type \in EntityTypes, entity_id \in Cands \cup Jobs :
           Cardinality(CacheDocs(cache, entity_type, entity_id)) <= 1
    /\ \A d \in cache : OfOneWrite(d.embedding, d.text_hash)
    /\ ret.op = "get_embedding" =>
           IF ret.val.found
           THEN /\ OfOneWrite(ret.val.embedding, ret.val.text_hash)
                /\ \E d \in CacheDocs(cache, ret.args.entity_type, ret.args.entity_id) :
                       /\ d.embedding = ret.val.embedding
                       /\ d.text_hash = ret.val.text_hash
           ELSE CacheDocs(cache, ret.args.entity_type, ret.args.entity_id) = {}

\* a get has returned the entry one resolution wrote while a second resolution
\* of the key, holding the feature string of another document, has not written
\* yet
C28_Witness ==
    /\ ret.op = "get_embedding"
    /\ ret.val.found
    /\ ret.val.text_hash # ForeignHash
    /\ \E p \in Procs :
        /\ resolutions[p].pc = "projected"
        /\ resolutions[p].entity_type = ret.args.entity_type
        /\ resolutions[p].entity_id = ret.args.entity_id
        /\ _compute_text_hash(resolutions[p].text) # ret.val.text_hash

----------------------------------------------------------------------------
(* The rounded match_score against min_score *)

\* C29 as the specification states it: every job generate returns has an output
\* match_score (rounded to 4 decimals) >= min_score, and the returned list is
\* in descending order of the true combined_score
C29_OutputScoreAtLeastMinScore ==
    (ret.op = "generate" /\ ~ret.val.raised) =>
        LET c == ret.student_id
            result == ret.val.result
        IN  /\ \A i \in DOMAIN result : result[i].match_score >= ret.args.min_score
            /\ \A i, k \in DOMAIN result :
                i < k => CombinedScoreOf(c, result[i].job_id)
                            >= CombinedScoreOf(c, result[k].job_id)

\* C29: every job generate returns has a combined_score >= min_score and an
\* output match_score, the combined_score rounded to 4 decimals, that is >=
\* min_score rounded to 4 decimals, and the returned list is in descending
\* order of the output match_score
C29_RoundedScoreAtLeastRoundedMinScore ==
    (ret.op = "generate" /\ ~ret.val.raised) =>
        LET c == ret.student_id
            result == ret.val.result
        IN  /\ \A i \in DOMAIN result :
                /\ CombinedScoreOf(c, result[i].job_id) >= ret.args.min_score
                /\ result[i].match_score = Round4(CombinedScoreOf(c, result[i].job_id))
                /\ result[i].match_score >= Round4(ret.args.min_score)
            /\ \A i, k \in DOMAIN result :
                i < k => result[i].match_score >= result[k].match_score

\* generate has returned a job whose combined_score is at least min_score and
\* whose output match_score is below min_score
C29_Witness ==
    /\ ret.op = "generate"
    /\ ~ret.val.raised
    /\ \E i \in DOMAIN ret.val.result :
        /\ CombinedScoreOf(ret.student_id, ret.val.result[i].job_id)
               >= ret.args.min_score
        /\ ret.val.result[i].match_score < ret.args.min_score

----------------------------------------------------------------------------
(* The reason of a recommendation *)

\* C30: the reason is determined by match_score, skill_match_pct and
\* experience_match: it shows int(match_score * 100) and int(skill_match_pct),
\* names the skill match Excellent exactly when skill_match_pct >= 80, Good
\* exactly when 50 <= skill_match_pct < 80 and Partial otherwise, and has the
\* experience-met phrase exactly when experience_match is true
C30_ReasonFollowsThresholds ==
    ret.op = "_generate_reason" =>
        LET pct == ret.args.skill_match_pct
        IN  /\ ret.val.overall = ret.args.match_score \div 10000
            /\ ret.val.skill_pct = pct \div 10000
            /\ ret.val.skill = "Excellent" <=> pct >= 80 * (ONE \div 100)
            /\ ret.val.skill = "Good" <=>
                   (50 * (ONE \div 100) <= pct /\ pct < 80 * (ONE \div 100))
            /\ ret.val.skill = "Partial" <=> pct < 50 * (ONE \div 100)
            /\ ret.val.skill \in {"Excellent", "Good", "Partial"}
            /\ ret.val.experience = "Experience requirements met"
                   <=> ret.args.experience_match
            /\ ret.val.experience \in {"Experience requirements met",
                                       "Experience slightly outside range"}

\* the reason of a recommendation with skill_match_pct 79.99 and experience
\* not met: Good, shown as 79%
C30_Witness ==
    /\ ret.op = "_generate_reason"
    /\ ret.args.skill_match_pct = 799900
    /\ ~ret.args.experience_match
    /\ ret.val.skill = "Good"
    /\ ret.val.skill_pct = 79
    /\ ret.val.experience = "Experience slightly outside range"

====
